---------------------------- MODULE Spec2Model ----------------------------
(***************************************************************************)
(* Execution framework of stellatus-content-crew:                         *)
(*   - agent lifecycle      (src/agents/base/agent.py, BaseAgent.execute)  *)
(*   - orchestrator         (src/orchestrator/orchestrator.py)             *)
(*   - content pipeline     (src/orchestrator/content_pipeline.py)         *)
(*   - skill lifecycle      (src/skills/base.py, BaseAgent.execute_skill)  *)
(*   - event bus            (src/core/events.py)                           *)
(*   - registry             (src/core/registry.py)                         *)
(*   - document chunker     (src/rag/ingestion/chunking.py)                *)
(*   - retrieval            (src/rag/retrieval/retriever.py,               *)
(*                           src/rag/rag_service.py, RAGService.query)     *)
(*                                                                         *)
(* The program is single-threaded and cooperative.  One top-level call is  *)
(* in progress at a time; `op` names it and `pc` is the position inside    *)
(* it.  `published` is what a recording wildcard subscriber has seen since *)
(* the top-level call began.                                               *)
(***************************************************************************)
EXTENDS Integers, Sequences, FiniteSets, TLC

VARIABLES
    agents,         \* Orchestrator._agents, keys in insertion order
    task_status,    \* Task.status of every live Task object
    op,             \* top-level call in progress
    pc,             \* position inside the call
    stage,          \* 1-based index of the pipeline stage being run, 0 = none
    cur_agent,      \* the agent whose execute() is running
    cur_task,       \* the Task handed to that agent
    result,         \* success flag of the TaskResult in hand
    raised,         \* the exception that is propagating
    published,      \* events published since the top-level call began
    invoked,        \* agents whose execute() was entered in this call
    logic_runs,     \* how often a logic body (_execute_task/_execute) was entered
    outcome,        \* what the top-level caller observes
    skill,          \* the skill of the current skill call
    ctx,            \* SkillContext.params of the current skill call
    skill_result,   \* the SkillResult in hand
    validation,     \* the (valid, errors) pair BaseSkill.validate returned
    handlers,       \* EventBus._handlers
    wildcard_handlers, \* EventBus._wildcard_handlers
    history,        \* EventBus._history
    bus_seq,        \* number of events published on the bus so far
    bus_pc,         \* position inside EventBus.publish
    bus_event,      \* the event being published
    bus_pending,    \* all_handlers not yet invoked by the running publish
    delivered,      \* handler invocations of the running publish, in order
    subscribed,     \* live subscriptions in the order subscribe() was called
    bus_outcome,    \* how the last publish ended, as its caller saw it
    query,          \* arguments and return value of the last get_history
    items,          \* Registry._items
    instances,      \* Registry._instances
    metadata,       \* Registry._metadata
    categories,     \* Registry._categories
    constructed,    \* number of instances the registry has constructed
    reg_result,     \* the last registry call, what it returned or raised
    text,           \* the text handed to DocumentChunker.chunk
    chunker,        \* chunk_size and chunk_overlap of the DocumentChunker
    strategy,       \* the ChunkingStrategy of the call
    chunk_meta,     \* the metadata of the call (None becomes {})
    start,          \* local `start` of the fixed-size and sliding-window loops
    chunks,         \* local `chunks`, the list the call returns
    chunk_pc,       \* position inside DocumentChunker.chunk
    embedding_service, \* RAGRetriever.embedding_service
    rag_calls,      \* the last RAG call: its arguments (query only) and the calls it made
    retrieval,      \* the RetrievalResult the last retrieve or query returned
    combined,       \* the dict the last retrieve_combined returned
    format_call,    \* arguments and return value of the last format_context
    stage_outputs,  \* the output of each stage result create_content holds
    content_result, \* the ContentResult create_content built
    task_error,     \* TaskResult.error of a result the orchestrator built itself
    pipeline_context, \* local `pipeline_context` of create_content
    task_metadata,  \* Task.metadata of the Task built for the current stage
    research,       \* locals of ResearchAgent._execute_task and the skills it ran
    event_loop      \* coroutines that publish on the bus, and the one that runs

execVars == <<agents, task_status, stage, cur_agent, cur_task, result, invoked>>
callVars == <<op, pc, raised, published, logic_runs, outcome>>
skillVars == <<skill, ctx, skill_result, validation>>
busVars == <<handlers, wildcard_handlers, history, bus_seq, bus_pc, bus_event,
             bus_pending, delivered, subscribed, bus_outcome, query>>
regVars == <<items, instances, metadata, categories, constructed, reg_result>>
chunkVars == <<text, chunker, strategy, chunk_meta, start, chunks, chunk_pc>>
retrVars == <<embedding_service, rag_calls, retrieval, combined, format_call>>
pipeVars == <<stage_outputs, content_result, task_error, pipeline_context,
              task_metadata, research, event_loop>>
storeVars == <<regVars, chunkVars, retrVars>>
libVars == <<storeVars, pipeVars>>
vars == <<agents, task_status, op, pc, stage, cur_agent, cur_task, result,
          raised, published, invoked, logic_runs, outcome, skill, ctx,
          skill_result, validation, handlers, wildcard_handlers, history,
          bus_seq, bus_pc, bus_event, bus_pending, delivered, subscribed,
          bus_outcome, query, items, instances, metadata, categories,
          constructed, reg_result, text, chunker, strategy, chunk_meta,
          start, chunks, chunk_pc, embedding_service, rag_calls, retrieval,
          combined, format_call, stage_outputs, content_result, task_error,
          pipeline_context, task_metadata, research, event_loop>>

----------------------------------------------------------------------------
(* Bounds *)

NumTasks == 1          \* Task objects a caller keeps and may submit again
MaxCtxKeys == 2        \* keys in the params a caller hands to a skill
NumHandlers == 2       \* handler callables that subscribe to the bus
MaxPriority == 0       \* subscription priorities range over -1..MaxPriority
MaxSubscriptions == 3  \* subscriptions alive on the bus at one time
MaxTextLen == 7        \* characters in a text handed to the chunker
MaxChunks == 8         \* chunks one call emits before the model stops it
MaxInstances == 2      \* instances the registry constructs in one run
MaxLimit == 2          \* get_history is asked for 0..MaxLimit events
MaxPublishes == 3      \* events published on the bus in one run
MantissaBits == 3      \* significant bits of a float (53 in the program)
NumExps == 3           \* binades the store's distances are drawn from
MaxResults == 2        \* query is asked for 0..MaxResults documents
MaxDocs == 3           \* documents in a result handed to format_context
MaxLength == 48        \* format_context is given max_length 0..MaxLength

----------------------------------------------------------------------------
(* Agents, tasks and events *)

Range(s) == {s[i] : i \in 1..Len(s)}

\* dict.update, and {**c, **p}
Merge(c, p) ==
    [n \in (DOMAIN c) \cup (DOMAIN p) |->
        IF n \in DOMAIN p THEN p[n] ELSE c[n]]

\* Mutant: the SEO stage is dispatched before the edit stage.
StageAgents_SeoBeforeEdit ==
    <<"research", "writer", "seo", "editor", "quality_reviewer",
      "image_prompt", "visual_suggestion">>

\* The agents in the order create_content dispatches them, which is also the
\* order Orchestrator.initialize registers them.
StageAgents ==
    <<"research", "writer", "editor", "seo", "quality_reviewer",
      "image_prompt", "visual_suggestion">>

NumStages == Len(StageAgents)

AgentClasses == StageAgents

\* AgentCapability.task_types declared by each agent's _setup
TaskTypesOf(a) ==
    CASE a = "research"          -> {"research", "discover", "gather", "verify"}
      [] a = "writer"            -> {"write", "create", "draft", "compose"}
      [] a = "editor"            -> {"edit", "review", "improve", "polish"}
      [] a = "seo"               -> {"optimize", "seo", "keywords", "meta"}
      [] a = "quality_reviewer"  -> {"quality", "final_review", "approve", "validate"}
      [] a = "image_prompt"      -> {"image_prompt", "visual_prompt", "thumbnail"}
      [] a = "visual_suggestion" -> {"visual", "layout", "design", "suggest"}
      [] OTHER                   -> {}

\* Task objects: 0 is the Task the pipeline builds for its current stage,
\* 1..NumTasks are Task objects held by a caller of the orchestrator.
PoolTasks == 1..NumTasks
StageTask == 0
TaskRefs == {StageTask} \cup PoolTasks

\* Task.task_type of the caller's tasks: the first is a research task, the
\* second keeps the dataclass default "general", which no agent handles,
\* the others carry the type of a later pipeline stage.
PoolTaskTypes ==
    <<"research", "general", "write", "edit", "optimize", "quality",
      "image_prompt", "visual">>

TaskTypeOf(t) == PoolTaskTypes[((t - 1) % Len(PoolTaskTypes)) + 1]

TaskStatus == {"PENDING", "IN_PROGRESS", "COMPLETED", "FAILED", "CANCELLED"}

BoolName(b) == IF b THEN "true" ELSE "false"

\* Event(type, source, data): data is reduced to the fields the lifecycle
\* puts there (stage name, task status, success flag), "-" when not present.
Event(type, source, stg, status, success) ==
    [type |-> type, source |-> source, stage |-> stg, status |-> status,
     success |-> success]

\* EventBus.publish as seen by a recording subscriber
Publish(log, e) == Append(log, e)

Types(log) == [i \in 1..Len(log) |-> log[i].type]

\* Outcomes of pre-hook, logic and post-hook of one execution
LogicOutcomes == {"pre_raise", "ok", "fail", "logic_raise", "post_raise"}

----------------------------------------------------------------------------
(* Initial state: a fresh Orchestrator, EventBus and PENDING tasks *)

InitExec ==
    /\ agents = <<>>
    /\ task_status = [t \in TaskRefs |-> "PENDING"]
    /\ stage = 0
    /\ cur_agent = "none"
    /\ cur_task = StageTask
    /\ result = "none"
    /\ invoked = <<>>

\* An exception: its class, the agent and task it names, and its reason
Error(type, a, t, reason) ==
    [type |-> type, agent |-> a, task |-> t, reason |-> reason]

NoError == Error("none", "none", -1, "none")

InitCall ==
    /\ op = "none"
    /\ pc = "idle"
    /\ raised = NoError
    /\ published = <<>>
    /\ logic_runs = 0
    /\ outcome = "none"

\* SkillResult(skill_name, success, status, error): error is the list of
\* validation errors, or one entry for the message of an uncaught error
SkillResult(name, success, status, errors) ==
    [skill_name |-> name, success |-> success, status |-> status,
     errors |-> errors]

NoSkillResult == SkillResult("none", "-", "-", <<>>)

NoValidation == [valid |-> "-", errors |-> <<>>]

\* SkillContext.params == {}
EmptyCtx == [n \in {} |-> "none"]

InitSkill ==
    /\ skill = "none"
    /\ ctx = EmptyCtx
    /\ skill_result = NoSkillResult
    /\ validation = NoValidation

\* The event types published on the bus under test
BusEventTypes == {"AGENT_STARTED", "CUSTOM"}

\* An event on the bus under test: its type and its event_id
BusEvent(type, id) == [type |-> type, id |-> id]

NoBusEvent == BusEvent("none", 0)

\* get_history(event_type, limit) and the list it returned; event_type "*"
\* stands for None
Query(type, limit, events) == [type |-> type, limit |-> limit, events |-> events]

NoQuery == Query("none", -1, <<>>)

\* EventBus.__init__: no handlers, empty history
InitBus ==
    /\ handlers = [t \in BusEventTypes |-> <<>>]
    /\ wildcard_handlers = <<>>
    /\ history = <<>>
    /\ bus_seq = 0
    /\ bus_pc = "idle"
    /\ bus_event = NoBusEvent
    /\ bus_pending = <<>>
    /\ delivered = <<>>
    /\ subscribed = <<>>
    /\ bus_outcome = "none"
    /\ query = NoQuery

\* Names, classes, category tags and constructor arguments of registry calls
RegNames == {"research", "writer"}
Classes == {"A", "B"}
Categories == {"default", "content"}
CtorArgs == {"x", "y"}

\* dict.get(name) of a missing key
Absent == "absent"

\* An object a registered class constructed: its class, the arguments it was
\* constructed with, and its identity
Instance(cls, args, id) == [cls |-> cls, args |-> args, id |-> id]

NoInstance == Instance("none", "none", 0)

\* Registry._metadata[name]: the category tag add() writes into it
Metadata(category) == [category |-> category]

NoMetadata == Metadata("none")

\* A registry call: its name and arguments, and what it returned or raised
RegResult(call, name, cls, category, replace, args, instance, names, error) ==
    [op |-> call, name |-> name, cls |-> cls, category |-> category,
     replace |-> replace, args |-> args, instance |-> instance,
     names |-> names, error |-> error]

NoRegResult == RegResult("none", "-", "-", "-", "-", "-", NoInstance, {}, "none")

\* Registry.__init__: four empty dicts
InitRegistry ==
    /\ items = [n \in RegNames |-> Absent]
    /\ instances = [n \in RegNames |-> NoInstance]
    /\ metadata = [n \in RegNames |-> NoMetadata]
    /\ categories = [c \in Categories |-> {}]
    /\ constructed = 0
    /\ reg_result = NoRegResult

\* The characters texts are made of: a letter, a space, a full stop (one of
\* the sentence enders [.!?]) and a newline
Letter == "a"
Space == " "
Stop == "."
Newline == "\n"
Chars == {Letter, Space, Stop, Newline}

\* str.isspace
IsSpace(c) == c \in {Space, Newline}

\* DocumentChunker(chunk_size, chunk_overlap)
DocumentChunker(size, overlap) == [chunk_size |-> size, chunk_overlap |-> overlap]

NoChunker == DocumentChunker(0, 0)

\* The chunkers under test
Chunkers == {DocumentChunker(3, 1), DocumentChunker(6, 2)}

\* ChunkingStrategy
Strategies == {"fixed_size", "semantic", "paragraph", "sliding_window"}

\* metadata arguments of chunk(): None, and a dict that happens to hold a
\* key named chunk_index
EmptyMeta == [k \in {} |-> 0]
Metadatas == {EmptyMeta, [page |-> 1, chunk_index |-> 9]}

\* No call of chunk() has been made
InitChunk ==
    /\ text = <<>>
    /\ chunker = NoChunker
    /\ strategy = "none"
    /\ chunk_meta = EmptyMeta
    /\ start = 0
    /\ chunks = <<>>
    /\ chunk_pc = "idle"

\* A string is the sequence of its characters.

\* ContentResult, reduced to content, approved and word_count; approved is
\* "true" or "false"
ContentResult(content, approved, word_count) == [content |-> content, approved |-> approved, word_count |-> word_count]

NoContentResult == ContentResult(<<>>, "-", -1)

\* The dict `output or {}` of a stage, reduced to the key the assembly of
\* content and approved reads; Missing and AbsentKey stand for a key the
\* dict lacks, where the value is a string and where it is a flag
Missing == <<"<missing>">>
AbsentKey == "absent"
NoOutputs == [research |-> [analysis |-> "-"], write |-> [outline |-> "-"], edit |-> [content |-> Missing], seo |-> [content |-> Missing], quality |-> [approved |-> AbsentKey], image |-> [prompts |-> "-"]]

\* TaskResult.error of a result that carries no error
NoTaskError == <<>>

\* f"Agent '{agent_name}' not found"
AgentNotFound(agent_name) == <<"Agent '", agent_name, "' not found">>

\* f"No agent found for task type: {task.task_type}"
NoAgentFound(task_type) == <<"No agent found for task type: ", task_type>>

\* A skill result as the research agent reads it: success and output; the
\* output carries its runtime type
SkillOutcome(success, output) == [success |-> success, output |-> output]

NoneValue == [type |-> "NoneType"]

\* No research task is running
NoResearch ==
    [pc |-> "idle", user_context |-> <<>>, retrieved |-> <<>>,
     rag_result |-> SkillOutcome("-", NoneValue), skills |-> <<>>,
     web_results |-> NoneValue, analysis |-> NoneValue]

\* The coroutines that publish on the bus
NumPublishers == 2
Publishers == 1..NumPublishers

\* A coroutine's position in EventBus.publish: its event, the handlers of
\* all_handlers it has not invoked yet, and the handler it is in
Coroutine(position, event, pending, handler) ==
    [pc |-> position, event |-> event, pending |-> pending, handler |-> handler]

NotPublishing == Coroutine("idle", NoBusEvent, <<>>, 0)

\* Nothing runs on the event loop: running is the coroutine that holds it
NoLoop == [running |-> 0, coroutines |-> [p \in Publishers |-> NotPublishing]]

\* create_content has not built a ContentResult
InitPipeline ==
    /\ stage_outputs = NoOutputs
    /\ content_result = NoContentResult
    /\ task_error = NoTaskError
    /\ pipeline_context = EmptyMeta
    /\ task_metadata = EmptyMeta
    /\ research = NoResearch
    /\ event_loop = NoLoop

\* Document(id, content, metadata): metadata holds the keys title and source,
\* each of them optional
Document(id, content, title, source) == [id |-> id, content |-> content, title |-> title, source |-> source]

\* RetrievalResult(documents, scores, query, collection)
RetrievalResult(documents, scores, collection) == [documents |-> documents, scores |-> scores, query |-> "q", collection |-> collection]

NoRetrieval == RetrievalResult(<<>>, <<>>, "none")

\* format_context was not called
NoFormatCall == [documents |-> <<>>, max_length |-> -1, parts |-> <<>>, returned |-> <<>>]

\* No retriever has been constructed and no retrieval call has been made
InitRetriever ==
    /\ embedding_service = "unset"
    /\ rag_calls = <<>>
    /\ retrieval = NoRetrieval
    /\ combined = [style |-> NoRetrieval, knowledge |-> NoRetrieval]
    /\ format_call = NoFormatCall

Init ==
    /\ InitExec /\ InitCall /\ InitSkill /\ InitBus /\ InitRegistry
    /\ InitChunk /\ InitRetriever /\ InitPipeline

\* What a call action resets when a new top-level call begins
BeginCall(name) ==
    /\ op' = name
    /\ raised' = NoError
    /\ logic_runs' = 0
    /\ outcome' = "none"

----------------------------------------------------------------------------
(* Orchestrator *)

\* The agent names a caller asks execute_task for
AgentNames == Range(StageAgents) \cup {"unknown"}

\* Orchestrator.initialize: idempotent, registers the seven agents
Initialized(ags) == IF ags = <<>> THEN AgentClasses ELSE ags

\* Orchestrator.get_agent(name) is not None
HasAgent(ags, name) == name \in Range(ags)

\* BaseAgent.can_handle
CanHandle(a, ty) == ty \in TaskTypesOf(a)

\* Orchestrator.route_task: index of the first agent that can handle the
\* type, 0 when there is none
RouteIndex(ags, ty) ==
    IF \E i \in 1..Len(ags) : CanHandle(ags[i], ty)
    THEN CHOOSE i \in 1..Len(ags) :
            /\ CanHandle(ags[i], ty)
            /\ \A j \in 1..(i - 1) : ~CanHandle(ags[j], ty)
    ELSE 0

Initialize ==
    /\ pc = "idle"
    /\ BeginCall("initialize")
    /\ agents' = Initialized(agents)
    /\ published' = <<>>
    /\ invoked' = <<>>
    /\ result' = "none"
    /\ pc' = "done"
    /\ UNCHANGED <<task_status, stage, cur_agent, cur_task>>
    /\ UNCHANGED skillVars
    /\ UNCHANGED libVars
    /\ UNCHANGED busVars

\* A caller runs BaseAgent.execute(task) on an agent object it holds.
CallExecute ==
    /\ pc = "idle"
    /\ \E a \in Range(StageAgents), t \in PoolTasks :
          /\ BeginCall("execute")
          /\ cur_agent' = a
          /\ cur_task' = t
          /\ published' = <<>>
          /\ invoked' = <<>>
          /\ result' = "none"
          /\ pc' = "agent_start"
          /\ UNCHANGED <<agents, task_status, stage>>
          /\ UNCHANGED skillVars
          /\ UNCHANGED libVars
          /\ UNCHANGED busVars

\* execute_task that marks the task FAILED when the name is not registered
ExecuteTask_MarkFailed ==
    /\ pc = "idle"
    /\ \E name \in AgentNames, t \in PoolTasks :
          /\ BeginCall("execute_task")
          /\ published' = <<>>
          /\ invoked' = <<>>
          /\ cur_task' = t
          /\ IF HasAgent(agents, name)
             THEN /\ cur_agent' = name
                  /\ result' = "none"
                  /\ task_error' = NoTaskError
                  /\ pc' = "agent_start"
                  /\ UNCHANGED task_status
             ELSE /\ cur_agent' = "none"
                  /\ result' = "fail"
                  /\ task_error' = AgentNotFound(name)
                  /\ pc' = "return"
                  /\ task_status' = [task_status EXCEPT ![t] = "FAILED"]
          /\ UNCHANGED <<agents, stage>>
          /\ UNCHANGED skillVars
          /\ UNCHANGED <<storeVars, stage_outputs, content_result, pipeline_context, task_metadata, research, event_loop>>
          /\ UNCHANGED busVars

\* Orchestrator.execute_task(agent_name, task)
ExecuteTask ==
    /\ pc = "idle"
    /\ \E name \in AgentNames, t \in PoolTasks :
          /\ BeginCall("execute_task")
          /\ published' = <<>>
          /\ invoked' = <<>>
          /\ cur_task' = t
          /\ IF HasAgent(agents, name)
             THEN /\ cur_agent' = name
                  /\ result' = "none"
                  /\ task_error' = NoTaskError
                  /\ pc' = "agent_start"
             ELSE /\ cur_agent' = "none"
                  /\ result' = "fail"
                  /\ task_error' = AgentNotFound(name)
                  /\ pc' = "return"
          /\ UNCHANGED <<agents, task_status, stage>>
          /\ UNCHANGED skillVars
          /\ UNCHANGED <<storeVars, stage_outputs, content_result, pipeline_context, task_metadata, research, event_loop>>
          /\ UNCHANGED busVars

\* Orchestrator.route_task(task)
RouteTask ==
    /\ pc = "idle"
    /\ \E t \in PoolTasks :
          /\ BeginCall("route_task")
          /\ published' = <<>>
          /\ invoked' = <<>>
          /\ cur_task' = t
          /\ LET i == RouteIndex(agents, TaskTypeOf(t)) IN
             IF i > 0
             THEN /\ cur_agent' = agents[i]
                  /\ result' = "none"
                  /\ task_error' = NoTaskError
                  /\ pc' = "agent_start"
             ELSE /\ cur_agent' = "none"
                  /\ result' = "fail"
                  /\ task_error' = NoAgentFound(TaskTypeOf(t))
                  /\ pc' = "return"
          /\ UNCHANGED <<agents, task_status, stage>>
          /\ UNCHANGED skillVars
          /\ UNCHANGED <<storeVars, stage_outputs, content_result, pipeline_context, task_metadata, research, event_loop>>
          /\ UNCHANGED busVars

\* The orchestrator hands its TaskResult to the caller (direct calls only).
OrchestratorReturn ==
    /\ pc = "return"
    /\ op \in {"execute", "execute_task", "route_task"}
    /\ outcome' = IF result = "ok" THEN "returned_ok" ELSE "returned_fail"
    /\ pc' = "done"
    /\ UNCHANGED <<op, raised, published, logic_runs>>
    /\ UNCHANGED libVars
    /\ UNCHANGED execVars
    /\ UNCHANGED skillVars
    /\ UNCHANGED busVars

----------------------------------------------------------------------------
(* BaseAgent.execute *)

\* Where control goes when agent.execute returns a TaskResult
AfterAgentReturn == IF op = "create_content" THEN "stage_end" ELSE "return"

\* Where control goes when agent.execute raises
AfterAgentRaise == IF op = "create_content" THEN "pipeline_except" ELSE "done"

\* lines 117-134: status, start time, AGENT_STARTED
AgentStart ==
    /\ pc = "agent_start"
    /\ task_status' = [task_status EXCEPT ![cur_task] = "IN_PROGRESS"]
    /\ published' = Publish(published,
                       Event("AGENT_STARTED", cur_agent, "-", "IN_PROGRESS", "-"))
    /\ invoked' = Append(invoked, cur_agent)
    /\ pc' = "agent_logic"
    /\ UNCHANGED <<agents, stage, cur_agent, cur_task, result>>
    /\ UNCHANGED <<op, raised, logic_runs, outcome>>
    /\ UNCHANGED skillVars
    /\ UNCHANGED libVars
    /\ UNCHANGED busVars

\* What the SEO agent may report as content and the quality agent as
\* approved, or not report
ResearchOutputs == [analysis : {"", "analysis"}]
WriterOutputs == [outline : {"outline"}]
EditorOutputs == [content : {<<Letter>>}]
ImagePromptOutputs == [prompts : {"prompts"}]
SeoOutputs == [content : {Missing, <<>>, <<Letter>>, <<Letter, Space, Letter>>, <<Space, Letter, Newline, Newline, Letter, Stop, Space>>}]
QualityOutputs == [approved : {AbsentKey, "true", "false"}]

\* TaskResult.output of a successful run of agent a
OutputsOf(a) ==
    CASE a = "research"         -> ResearchOutputs
      [] a = "writer"           -> WriterOutputs
      [] a = "editor"           -> EditorOutputs
      [] a = "seo"              -> SeoOutputs
      [] a = "quality_reviewer" -> QualityOutputs
      [] a = "image_prompt"     -> ImagePromptOutputs
      [] OTHER                  -> {[suggestions |-> "suggestions"]}

\* create_content binds the result of agent a's stage to its local
\* (research_result, write_result, ...); visual_result is not read again
Kept(outputs, a, output) ==
    CASE a = "research"         -> [outputs EXCEPT !.research = output]
      [] a = "writer"           -> [outputs EXCEPT !.write = output]
      [] a = "editor"           -> [outputs EXCEPT !.edit = output]
      [] a = "seo"              -> [outputs EXCEPT !.seo = output]
      [] a = "quality_reviewer" -> [outputs EXCEPT !.quality = output]
      [] a = "image_prompt"     -> [outputs EXCEPT !.image = output]
      [] OTHER                  -> outputs

\* lines 136-139: _pre_execute, _execute_task, _post_execute; in a pipeline
\* run the output of a successful stage is what create_content keeps
AgentLogic(o) ==
    /\ pc = "agent_logic"
    /\ logic_runs' = IF o = "pre_raise" THEN logic_runs ELSE logic_runs + 1
    /\ IF o \in {"ok", "fail"}
       THEN /\ result' = o
            /\ raised' = NoError
            /\ pc' = "agent_complete"
       ELSE /\ result' = "none"
            /\ raised' = Error("Error", "none", -1, o)
            /\ pc' = "agent_except"
    /\ IF op = "create_content" /\ o = "ok"
       THEN \E output \in OutputsOf(cur_agent) :
               stage_outputs' = Kept(stage_outputs, cur_agent, output)
       ELSE UNCHANGED stage_outputs
    /\ UNCHANGED <<agents, task_status, stage, cur_agent, cur_task, invoked>>
    /\ UNCHANGED <<op, published, outcome>>
    /\ UNCHANGED skillVars
    /\ UNCHANGED <<storeVars, content_result, task_error, pipeline_context, task_metadata, research, event_loop>>
    /\ UNCHANGED busVars

\* Mutant: the task is marked COMPLETED whatever the success flag says.
AgentComplete_AlwaysCompleted ==
    /\ pc = "agent_complete"
    /\ task_status' = [task_status EXCEPT ![cur_task] = "COMPLETED"]
    /\ published' = Publish(published,
                       Event("AGENT_COMPLETED", cur_agent, "-", "COMPLETED",
                             BoolName(result = "ok")))
    /\ pc' = AfterAgentReturn
    /\ UNCHANGED <<agents, stage, cur_agent, cur_task, result, invoked>>
    /\ UNCHANGED <<op, raised, logic_runs, outcome>>
    /\ UNCHANGED skillVars
    /\ UNCHANGED libVars
    /\ UNCHANGED busVars

\* lines 141-161: status from the success flag, AGENT_COMPLETED, return
AgentComplete ==
    /\ pc = "agent_complete"
    /\ LET st == IF result = "ok" THEN "COMPLETED" ELSE "FAILED" IN
       /\ task_status' = [task_status EXCEPT ![cur_task] = st]
       /\ published' = Publish(published,
                          Event("AGENT_COMPLETED", cur_agent, "-", st,
                                BoolName(result = "ok")))
    /\ pc' = AfterAgentReturn
    /\ UNCHANGED <<agents, stage, cur_agent, cur_task, result, invoked>>
    /\ UNCHANGED <<op, raised, logic_runs, outcome>>
    /\ UNCHANGED skillVars
    /\ UNCHANGED libVars
    /\ UNCHANGED busVars

\* Mutant: the error is absorbed into a failed TaskResult, as a skill does.
AgentExcept_Swallow ==
    /\ pc = "agent_except"
    /\ task_status' = [task_status EXCEPT ![cur_task] = "FAILED"]
    /\ published' = Publish(published,
                       Event("AGENT_FAILED", cur_agent, "-", "FAILED", "-"))
    /\ raised' = NoError
    /\ result' = "fail"
    /\ pc' = AfterAgentReturn
    /\ UNCHANGED <<agents, stage, cur_agent, cur_task, invoked>>
    /\ UNCHANGED <<op, logic_runs, outcome>>
    /\ UNCHANGED skillVars
    /\ UNCHANGED libVars
    /\ UNCHANGED busVars

\* lines 163-189: FAILED, AGENT_FAILED, raise AgentExecutionError
AgentExcept ==
    /\ pc = "agent_except"
    /\ task_status' = [task_status EXCEPT ![cur_task] = "FAILED"]
    /\ published' = Publish(published,
                       Event("AGENT_FAILED", cur_agent, "-", "FAILED", "-"))
    /\ raised' = Error("AgentExecutionError", cur_agent, cur_task, raised.reason)
    /\ result' = "none"
    /\ pc' = AfterAgentRaise
    /\ outcome' = IF op = "create_content" THEN outcome ELSE "raised"
    /\ UNCHANGED <<agents, stage, cur_agent, cur_task, invoked>>
    /\ UNCHANGED <<op, logic_runs>>
    /\ UNCHANGED skillVars
    /\ UNCHANGED libVars
    /\ UNCHANGED busVars

----------------------------------------------------------------------------
(* ContentPipeline.create_content *)

default_target_length == 1500
min_quality_score == 75

\* What a caller hands to create_content: 0 is a target_length of None or 0
Topics == {"topic"}
TargetLengths == {0, 800}
CallerMetadata ==
    {EmptyMeta,
     [user_context |-> "context", topic |-> "other",
      research |-> [analysis |-> "caller"]]}

\* lines 116, 133-137
PipelineContext(topic, target_length, caller) ==
    Merge([topic |-> topic,
           target_length |-> IF target_length = 0 THEN default_target_length
                             ELSE target_length],
          caller)

\* The key under which a stage receives the output of the stage before it
PreviousKey ==
    <<"-", "research", "draft", "edited", "seo", "quality", "image_prompts">>

\* The output create_content holds for the stage before stage n
PreviousOutput(outputs, n) ==
    CASE n = 2 -> outputs.research
      [] n = 3 -> outputs.write
      [] n = 4 -> outputs.edit
      [] n = 5 -> outputs.seo
      [] n = 6 -> outputs.quality
      [] n = 7 -> outputs.image

\* Every stage is handed the output of the research stage
StageMetadata_ResearchOnly(n, context, outputs) ==
    CASE n = 1 -> context
      [] n = 5 -> Merge(context, [seo |-> outputs.research,
                                  min_quality_score |-> min_quality_score])
      [] n = 7 -> Merge(context, [quality |-> outputs.quality,
                                  image_prompts |-> outputs.research])
      [] OTHER -> Merge(context, [k \in {PreviousKey[n]} |-> outputs.research])

\* lines 141-228: the metadata of the Task built for stage n
StageMetadata(n, context, outputs) ==
    CASE n = 1 -> context
      [] n = 5 -> Merge(context, [seo |-> outputs.seo,
                                  min_quality_score |-> min_quality_score])
      [] n = 7 -> Merge(context, [quality |-> outputs.quality,
                                  image_prompts |-> outputs.image])
      [] OTHER -> Merge(context, [k \in {PreviousKey[n]} |-> PreviousOutput(outputs, n)])

\* lines 113-137: initialize the orchestrator, PIPELINE_STARTED,
\* pipeline_context
CreateContent ==
    /\ pc = "idle"
    /\ \E topic \in Topics, target_length \in TargetLengths, caller \in CallerMetadata :
          pipeline_context' = PipelineContext(topic, target_length, caller)
    /\ BeginCall("create_content")
    /\ agents' = Initialized(agents)
    /\ published' = Publish(<<>>,
                       Event("PIPELINE_STARTED", "content_pipeline", "-", "-", "-"))
    /\ invoked' = <<>>
    /\ result' = "none"
    /\ stage' = 1
    /\ pc' = "stage_start"
    /\ UNCHANGED <<task_status, cur_agent, cur_task>>
    /\ UNCHANGED skillVars
    /\ UNCHANGED <<storeVars, stage_outputs, content_result, task_error, task_metadata, research, event_loop>>
    /\ UNCHANGED busVars

\* The stage's Task is built, then _execute_stage lines 293-305:
\* PIPELINE_STAGE_STARTED and Orchestrator.execute_task up to the dispatch
StageStart ==
    /\ pc = "stage_start"
    /\ task_status' = [task_status EXCEPT ![StageTask] = "PENDING"]
    /\ cur_task' = StageTask
    /\ task_metadata' = StageMetadata(stage, pipeline_context, stage_outputs)
    /\ published' = Publish(published,
                       Event("PIPELINE_STAGE_STARTED", "content_pipeline",
                             StageAgents[stage], "-", "-"))
    /\ IF HasAgent(agents, StageAgents[stage])
       THEN /\ cur_agent' = StageAgents[stage]
            /\ result' = "none"
            /\ task_error' = NoTaskError
            /\ pc' = "agent_start"
       ELSE /\ cur_agent' = "none"
            /\ result' = "fail"
            /\ task_error' = AgentNotFound(StageAgents[stage])
            /\ pc' = "stage_end"
    /\ UNCHANGED <<agents, stage, invoked>>
    /\ UNCHANGED <<op, raised, logic_runs, outcome>>
    /\ UNCHANGED skillVars
    /\ UNCHANGED <<storeVars, stage_outputs, content_result, pipeline_context, research, event_loop>>
    /\ UNCHANGED busVars

\* Mutant: _execute_stage returns the result without looking at success.
StageEnd_IgnoreFailure ==
    /\ pc = "stage_end"
    /\ published' = Publish(published,
                       Event("PIPELINE_STAGE_COMPLETED", "content_pipeline",
                             StageAgents[stage], "-", BoolName(result = "ok")))
    /\ raised' = NoError
    /\ IF stage < NumStages
       THEN stage' = stage + 1 /\ pc' = "stage_start"
       ELSE stage' = stage /\ pc' = "pipeline_compile"
    /\ UNCHANGED <<agents, task_status, cur_agent, cur_task, result, invoked>>
    /\ UNCHANGED <<op, logic_runs, outcome>>
    /\ UNCHANGED skillVars
    /\ UNCHANGED libVars
    /\ UNCHANGED busVars

\* _execute_stage that also raises when the quality stage did not approve
StageEnd_AbortUnapproved ==
    /\ pc = "stage_end"
    /\ published' = Publish(published,
                       Event("PIPELINE_STAGE_COMPLETED", "content_pipeline",
                             StageAgents[stage], "-", BoolName(result = "ok")))
    /\ IF result # "ok" \/ (StageAgents[stage] = "quality_reviewer"
                             /\ stage_outputs.quality.approved = "false")
       THEN /\ raised' = Error("Exception", StageAgents[stage], -1, "stage failed")
            /\ pc' = "pipeline_except"
            /\ stage' = stage
       ELSE /\ raised' = NoError
            /\ IF stage < NumStages
               THEN stage' = stage + 1 /\ pc' = "stage_start"
               ELSE stage' = stage /\ pc' = "pipeline_compile"
    /\ UNCHANGED <<agents, task_status, cur_agent, cur_task, result, invoked>>
    /\ UNCHANGED <<op, logic_runs, outcome>>
    /\ UNCHANGED skillVars
    /\ UNCHANGED libVars
    /\ UNCHANGED busVars

\* _execute_stage lines 307-322: PIPELINE_STAGE_COMPLETED, raise on
\* success=false, else return to create_content, which goes on to the next
\* stage or to the final assembly
StageEnd ==
    /\ pc = "stage_end"
    /\ published' = Publish(published,
                       Event("PIPELINE_STAGE_COMPLETED", "content_pipeline",
                             StageAgents[stage], "-", BoolName(result = "ok")))
    /\ IF result # "ok"
       THEN /\ raised' = Error("Exception", StageAgents[stage], -1, "stage failed")
            /\ pc' = "pipeline_except"
            /\ stage' = stage
       ELSE /\ raised' = NoError
            /\ IF stage < NumStages
               THEN stage' = stage + 1 /\ pc' = "stage_start"
               ELSE stage' = stage /\ pc' = "pipeline_compile"
    /\ UNCHANGED <<agents, task_status, cur_agent, cur_task, result, invoked>>
    /\ UNCHANGED <<op, logic_runs, outcome>>
    /\ UNCHANGED skillVars
    /\ UNCHANGED libVars
    /\ UNCHANGED busVars

\* The PIPELINE_COMPLETED event, whose data carries the approved flag
PipelineCompleted(approved) ==
    [type |-> "PIPELINE_COMPLETED", source |-> "content_pipeline", stage |-> "-",
     status |-> "-", success |-> "-", approved |-> approved]

\* str.split(): the maximal runs of non-whitespace characters, from
\* character i on; word is the run that is being read
RECURSIVE Split(_, _, _, _)
Split(s, i, word, words) ==
    IF i > Len(s) THEN (IF word = <<>> THEN words ELSE Append(words, word))
    ELSE IF IsSpace(s[i])
         THEN Split(s, i + 1, <<>>, IF word = <<>> THEN words ELSE Append(words, word))
         ELSE Split(s, i + 1, Append(word, s[i]), words)

\* The final assembly with word_count counting characters
PipelineComplete_CountCharacters ==
    /\ pc = "pipeline_compile"
    /\ LET seo_output == stage_outputs.seo
           quality_output == stage_outputs.quality
           final_content == IF seo_output.content = Missing THEN <<>> ELSE seo_output.content
           approved == IF quality_output.approved = AbsentKey THEN "false" ELSE quality_output.approved
       IN  /\ content_result' = ContentResult(final_content, approved, Len(final_content))
           /\ published' = Publish(published, PipelineCompleted(approved))
    /\ UNCHANGED <<stage_outputs, task_error, pipeline_context, task_metadata, research, event_loop>>
    /\ outcome' = "returned_ok"
    /\ pc' = "done"
    /\ UNCHANGED storeVars
    /\ UNCHANGED execVars
    /\ UNCHANGED <<op, raised, logic_runs>>
    /\ UNCHANGED skillVars
    /\ UNCHANGED busVars

\* lines 230-274: build the ContentResult from the outputs of the SEO and
\* the quality stage, PIPELINE_COMPLETED, return it
PipelineComplete ==
    /\ pc = "pipeline_compile"
    /\ LET seo_output == stage_outputs.seo
           quality_output == stage_outputs.quality
           final_content == IF seo_output.content = Missing THEN <<>> ELSE seo_output.content
           approved == IF quality_output.approved = AbsentKey THEN "false" ELSE quality_output.approved
       IN  /\ content_result' = ContentResult(final_content, approved,
                                              Len(Split(final_content, 1, <<>>, <<>>)))
           /\ published' = Publish(published, PipelineCompleted(approved))
    /\ UNCHANGED <<stage_outputs, task_error, pipeline_context, task_metadata, research, event_loop>>
    /\ outcome' = "returned_ok"
    /\ pc' = "done"
    /\ UNCHANGED storeVars
    /\ UNCHANGED execVars
    /\ UNCHANGED <<op, raised, logic_runs>>
    /\ UNCHANGED skillVars
    /\ UNCHANGED busVars

\* The except branch re-raises without an event
PipelineExcept_NoEvent ==
    /\ pc = "pipeline_except"
    /\ outcome' = "raised"
    /\ pc' = "done"
    /\ UNCHANGED libVars
    /\ UNCHANGED execVars
    /\ UNCHANGED <<op, raised, published, logic_runs>>
    /\ UNCHANGED skillVars
    /\ UNCHANGED busVars

\* lines 276-291: PIPELINE_FAILED, re-raise
PipelineExcept ==
    /\ pc = "pipeline_except"
    /\ published' = Publish(published,
                       Event("PIPELINE_FAILED", "content_pipeline", "-", "-", "-"))
    /\ outcome' = "raised"
    /\ pc' = "done"
    /\ UNCHANGED libVars
    /\ UNCHANGED execVars
    /\ UNCHANGED <<op, raised, logic_runs>>
    /\ UNCHANGED skillVars
    /\ UNCHANGED busVars

\* The caller has seen the outcome; the call's locals are gone.
Return ==
    /\ pc = "done"
    /\ pc' = "idle"
    /\ op' = "none"
    /\ raised' = NoError
    /\ published' = <<>>
    /\ logic_runs' = 0
    /\ outcome' = "none"
    /\ stage' = 0
    /\ cur_agent' = "none"
    /\ cur_task' = StageTask
    /\ result' = "none"
    /\ invoked' = <<>>
    /\ task_status' = [task_status EXCEPT ![StageTask] = "PENDING"]
    /\ skill' = "none"
    /\ ctx' = EmptyCtx
    /\ skill_result' = NoSkillResult
    /\ validation' = NoValidation
    /\ stage_outputs' = NoOutputs
    /\ content_result' = NoContentResult
    /\ task_error' = NoTaskError
    /\ pipeline_context' = EmptyMeta
    /\ task_metadata' = EmptyMeta
    /\ UNCHANGED <<research, event_loop>>
    /\ UNCHANGED agents
    /\ UNCHANGED storeVars
    /\ UNCHANGED busVars

----------------------------------------------------------------------------
(* Skills: declared parameters and BaseSkill.validate *)

SkillParameter(name, param_type, required) ==
    [name |-> name, param_type |-> param_type, required |-> required]

\* The `parameters` class attribute of the four skills
Parameters(s) ==
    CASE s = "llm_call" ->
            <<SkillParameter("prompt", "str", TRUE),
              SkillParameter("system_prompt", "str", FALSE),
              SkillParameter("context", "str", FALSE),
              SkillParameter("max_tokens", "int", FALSE),
              SkillParameter("temperature", "float", FALSE)>>
      [] s = "rag_query" ->
            <<SkillParameter("query", "str", TRUE),
              SkillParameter("collection", "str", FALSE),
              SkillParameter("n_results", "int", FALSE),
              SkillParameter("format_as_context", "bool", FALSE)>>
      [] s = "web_search" ->
            <<SkillParameter("query", "str", TRUE),
              SkillParameter("max_results", "int", FALSE),
              SkillParameter("region", "str", FALSE)>>
      [] s = "keyword_extraction" ->
            <<SkillParameter("text", "str", TRUE),
              SkillParameter("max_keywords", "int", FALSE),
              SkillParameter("min_word_length", "int", FALSE)>>
      [] OTHER -> <<>>

SkillNames == {"llm_call", "rag_query", "web_search", "keyword_extraction"}

\* The skills each agent's _setup adds
AgentSkills(a) ==
    CASE a = "research"          -> {"web_search", "rag_query", "llm_call"}
      [] a = "writer"            -> {"llm_call", "rag_query"}
      [] a = "editor"            -> {"llm_call", "rag_query"}
      [] a = "seo"               -> {"llm_call", "keyword_extraction"}
      [] a = "quality_reviewer"  -> {"llm_call", "rag_query"}
      [] a = "image_prompt"      -> {"llm_call"}
      [] a = "visual_suggestion" -> {"llm_call"}
      [] OTHER                   -> {}

\* Python values by runtime type; "none" is None
ValueKinds == {"none", "str", "int", "bool", "float"}

None == "none"

\* isinstance(value, param_type): bool is a subclass of int
IsInstance(v, ty) ==
    CASE ty = "str"   -> v = "str"
      [] ty = "int"   -> v \in {"int", "bool"}
      [] ty = "bool"  -> v = "bool"
      [] ty = "float" -> v = "float"
      [] OTHER        -> FALSE

\* SkillContext.get(key): None when the key is missing
Get(c, key) == IF key \in DOMAIN c THEN c[key] ELSE None

ParamNames(s) == {Parameters(s)[i].name : i \in 1..Len(Parameters(s))}

\* The params a caller may pass for skill s: declared names and one
\* undeclared name, at most k keys
ContextsOf(s, k) ==
    UNION {[D -> ValueKinds] :
              D \in {E \in SUBSET (ParamNames(s) \cup {"extra"}) :
                        Cardinality(E) <= k}}

ValidationError(kind, name) == [kind |-> kind, name |-> name]

\* BaseSkill.validate, the loop from parameter i on
RECURSIVE ValidateFrom(_, _, _)
ValidateFrom(params, c, i) ==
    IF i > Len(params)
    THEN <<>>
    ELSE LET param == params[i]
             value == Get(c, param.name)
             errs  == IF param.required /\ value = None
                      THEN <<ValidationError("missing", param.name)>>
                      ELSE IF value # None /\ ~IsInstance(value, param.param_type)
                           THEN <<ValidationError("type", param.name)>>
                           ELSE <<>>
         IN  errs \o ValidateFrom(params, c, i + 1)

\* Mutant: validation stops at the first violation.
Validate_StopAtFirst(s, c) ==
    LET errors == ValidateFrom(Parameters(s), c, 1)
        first  == IF Len(errors) = 0 THEN errors ELSE <<errors[1]>>
    IN  [valid |-> BoolName(Len(first) = 0), errors |-> first]

\* BaseSkill.validate
Validate(s, c) ==
    LET errors == ValidateFrom(Parameters(s), c, 1) IN
    [valid |-> BoolName(Len(errors) = 0), errors |-> errors]

----------------------------------------------------------------------------
(* Skill calls: BaseSkill.validate, BaseSkill.execute, BaseAgent.execute_skill *)

\* The skill names a caller asks execute_skill for
SkillCallNames == SkillNames \cup {"unknown_skill"}

\* The agents that call skills here: between them they hold all four skills
\* and each of them lacks some.
SkillCallers == {"research", "seo"}

\* The context argument of execute_skill next to params: None (<<>>), or a
\* SkillContext (<<c>>) such that both hold at most MaxCtxKeys keys together
ContextArgs(s, params) ==
    {<<>>} \cup
    {<<c>> : c \in ContextsOf(s, MaxCtxKeys - Cardinality(DOMAIN params))}

\* A caller runs skill.validate(context).
CallValidate ==
    /\ pc = "idle"
    /\ \E s \in SkillNames : \E c \in ContextsOf(s, MaxCtxKeys) :
          /\ op' = "validate"
          /\ raised' = NoError
          /\ logic_runs' = 0
          /\ skill' = s
          /\ ctx' = c
          /\ validation' = Validate(s, c)
          /\ skill_result' = NoSkillResult
          /\ published' = <<>>
          /\ outcome' = "returned"
          /\ pc' = "done"
          /\ UNCHANGED libVars
          /\ UNCHANGED execVars
          /\ UNCHANGED busVars

\* A caller runs skill.execute(context) on a skill object it holds.
CallSkillExecute ==
    /\ pc = "idle"
    /\ \E s \in SkillNames : \E c \in ContextsOf(s, MaxCtxKeys) :
          /\ BeginCall("skill_execute")
          /\ skill' = s
          /\ ctx' = c
          /\ validation' = NoValidation
          /\ skill_result' = NoSkillResult
          /\ published' = <<>>
          /\ pc' = "skill_start"
          /\ UNCHANGED libVars
          /\ UNCHANGED execVars
          /\ UNCHANGED busVars

\* Mutant: execute_skill dispatches without validating.
ExecuteSkill_NoValidation ==
    /\ pc = "idle"
    /\ \E a \in SkillCallers, s \in SkillCallNames :
       \E params \in ContextsOf(s, MaxCtxKeys) :
       \E context \in ContextArgs(s, params) :
          /\ op' = "execute_skill"
          /\ logic_runs' = 0
          /\ published' = <<>>
          /\ skill' = s
          /\ skill_result' = NoSkillResult
          /\ IF s \notin AgentSkills(a)
             THEN /\ raised' = Error("SkillNotFoundError", a, -1, s)
                  /\ ctx' = EmptyCtx
                  /\ validation' = NoValidation
                  /\ outcome' = "raised"
                  /\ pc' = "done"
             ELSE LET c == IF context = <<>> THEN params
                           ELSE Merge(context[1], params)
                      v == Validate(s, c)
                  IN  /\ raised' = NoError
                      /\ ctx' = c
                      /\ validation' = v
                      /\ outcome' = "none"
                      /\ pc' = "skill_start"
          /\ UNCHANGED libVars
          /\ UNCHANGED execVars
          /\ UNCHANGED busVars

\* BaseAgent.execute_skill(skill_name, params, context) lines 213-231, up to
\* the dispatch to skill.execute.  context is <<>> for None, else <<c>>.
ExecuteSkill ==
    /\ pc = "idle"
    /\ \E a \in SkillCallers, s \in SkillCallNames :
       \E params \in ContextsOf(s, MaxCtxKeys) :
       \E context \in ContextArgs(s, params) :
          /\ op' = "execute_skill"
          /\ logic_runs' = 0
          /\ published' = <<>>
          /\ skill' = s
          /\ skill_result' = NoSkillResult
          /\ IF s \notin AgentSkills(a)
             THEN /\ raised' = Error("SkillNotFoundError", a, -1, s)
                  /\ ctx' = EmptyCtx
                  /\ validation' = NoValidation
                  /\ outcome' = "raised"
                  /\ pc' = "done"
             ELSE LET c == IF context = <<>> THEN params
                           ELSE Merge(context[1], params)
                      v == Validate(s, c)
                  IN  /\ raised' = NoError
                      /\ ctx' = c
                      /\ validation' = v
                      /\ outcome' = "none"
                      /\ pc' = IF v.valid = "true" THEN "skill_start"
                               ELSE "skill_invalid"
          /\ UNCHANGED libVars
          /\ UNCHANGED execVars
          /\ UNCHANGED busVars

\* The failed result names the first violation only
ExecuteSkillInvalid_FirstOnly ==
    /\ pc = "skill_invalid"
    /\ skill_result' = SkillResult(skill, "false", "COMPLETED", <<validation.errors[1]>>)
    /\ outcome' = "returned_fail"
    /\ pc' = "done"
    /\ UNCHANGED <<op, raised, published, logic_runs>>
    /\ UNCHANGED <<skill, ctx, validation>>
    /\ UNCHANGED libVars
    /\ UNCHANGED execVars
    /\ UNCHANGED busVars

\* lines 224-229: the failed SkillResult of a validation failure
ExecuteSkillInvalid ==
    /\ pc = "skill_invalid"
    /\ skill_result' = SkillResult(skill, "false", "COMPLETED", validation.errors)
    /\ outcome' = "returned_fail"
    /\ pc' = "done"
    /\ UNCHANGED <<op, raised, published, logic_runs>>
    /\ UNCHANGED <<skill, ctx, validation>>
    /\ UNCHANGED libVars
    /\ UNCHANGED execVars
    /\ UNCHANGED busVars

\* BaseSkill.execute lines 65-79: SKILL_STARTED
SkillStart ==
    /\ pc = "skill_start"
    /\ published' = Publish(published,
                       Event("SKILL_STARTED", skill, "-", "-", "-"))
    /\ pc' = "skill_logic"
    /\ UNCHANGED <<op, raised, logic_runs, outcome>>
    /\ UNCHANGED skillVars
    /\ UNCHANGED libVars
    /\ UNCHANGED execVars
    /\ UNCHANGED busVars

\* lines 81-84: _pre_execute, _execute, _post_execute.  The _execute of the
\* skills returns success with COMPLETED or failure with FAILED.
SkillLogic(o) ==
    /\ pc = "skill_logic"
    /\ logic_runs' = IF o = "pre_raise" THEN logic_runs ELSE logic_runs + 1
    /\ IF o \in {"ok", "fail"}
       THEN /\ skill_result' =
                  IF o = "ok"
                  THEN SkillResult(skill, "true", "COMPLETED", <<>>)
                  ELSE SkillResult(skill, "false", "FAILED", <<"service error">>)
            /\ raised' = NoError
            /\ pc' = "skill_complete"
       ELSE /\ skill_result' = NoSkillResult
            /\ raised' = Error("Error", "none", -1, o)
            /\ pc' = "skill_except"
    /\ UNCHANGED <<op, published, outcome>>
    /\ UNCHANGED <<skill, ctx, validation>>
    /\ UNCHANGED libVars
    /\ UNCHANGED execVars
    /\ UNCHANGED busVars

\* lines 86-103: execution time, SKILL_COMPLETED, return the result
SkillComplete ==
    /\ pc = "skill_complete"
    /\ published' = Publish(published,
                       Event("SKILL_COMPLETED", skill, "-",
                             skill_result.status, skill_result.success))
    /\ outcome' = IF skill_result.success = "true" THEN "returned_ok"
                  ELSE "returned_fail"
    /\ pc' = "done"
    /\ UNCHANGED <<op, raised, logic_runs>>
    /\ UNCHANGED skillVars
    /\ UNCHANGED libVars
    /\ UNCHANGED execVars
    /\ UNCHANGED busVars

\* Mutant: the skill re-raises the error after SKILL_FAILED, as an agent does.
SkillExcept_Reraise ==
    /\ pc = "skill_except"
    /\ skill_result' = NoSkillResult
    /\ published' = Publish(published,
                       Event("SKILL_FAILED", skill, "-", "-", "-"))
    /\ raised' = Error("SkillExecutionError", "none", -1, raised.reason)
    /\ outcome' = "raised"
    /\ pc' = "done"
    /\ UNCHANGED <<op, logic_runs>>
    /\ UNCHANGED <<skill, ctx, validation>>
    /\ UNCHANGED libVars
    /\ UNCHANGED execVars
    /\ UNCHANGED busVars

\* Mutant: the failed result is returned without announcing SKILL_FAILED.
SkillExcept_Silent ==
    /\ pc = "skill_except"
    /\ skill_result' = SkillResult(skill, "false", "FAILED", <<raised.reason>>)
    /\ raised' = NoError
    /\ outcome' = "returned_fail"
    /\ pc' = "done"
    /\ UNCHANGED <<op, logic_runs, published>>
    /\ UNCHANGED <<skill, ctx, validation>>
    /\ UNCHANGED libVars
    /\ UNCHANGED execVars
    /\ UNCHANGED busVars

\* lines 105-128: failed SkillResult, SKILL_FAILED, return the result
SkillExcept ==
    /\ pc = "skill_except"
    /\ skill_result' = SkillResult(skill, "false", "FAILED", <<raised.reason>>)
    /\ published' = Publish(published,
                       Event("SKILL_FAILED", skill, "-", "-", "-"))
    /\ raised' = NoError
    /\ outcome' = "returned_fail"
    /\ pc' = "done"
    /\ UNCHANGED <<op, logic_runs>>
    /\ UNCHANGED <<skill, ctx, validation>>
    /\ UNCHANGED libVars
    /\ UNCHANGED execVars
    /\ UNCHANGED busVars

----------------------------------------------------------------------------
(* EventBus *)

Handlers == 1..NumHandlers
Priorities == (-1)..MaxPriority

\* max_history of the bus under test
MaxHistory == 2

\* list.sort(key=lambda x: -x[0]) on one more element: a stable sort puts the
\* element appended last behind every entry of at least its priority
InsertByPriority(sorted, x) ==
    LET k == Cardinality({i \in 1..Len(sorted) : sorted[i][1] >= x[1]}) IN
    SubSeq(sorted, 1, k) \o <<x>> \o SubSeq(sorted, k + 1, Len(sorted))

\* Mutant: the sort is ascending in priority.
RECURSIVE SortByPriority_Ascending(_)
SortByPriority_Ascending(seq) ==
    IF seq = <<>>
    THEN <<>>
    ELSE LET rest == SortByPriority_Ascending(SubSeq(seq, 1, Len(seq) - 1))
             x    == seq[Len(seq)]
             k    == Cardinality({i \in 1..Len(rest) : rest[i][1] <= x[1]})
         IN  SubSeq(rest, 1, k) \o <<x>> \o SubSeq(rest, k + 1, Len(rest))

\* sorted(seq, key=lambda x: -x[0]): stable, descending in priority
RECURSIVE SortByPriority(_)
SortByPriority(seq) ==
    IF seq = <<>>
    THEN <<>>
    ELSE InsertByPriority(SortByPriority(SubSeq(seq, 1, Len(seq) - 1)),
                          seq[Len(seq)])

\* Mutant: the concrete handlers go first, then the wildcard handlers.
AllHandlers_Concatenated(hs, ws, type) == hs[type] \o ws

\* publish lines 132-136: the handlers of the event's type merged with the
\* wildcard handlers
AllHandlers(hs, ws, type) == SortByPriority(hs[type] \o ws)

\* list.remove(x): drops the first entry equal to x
RemoveFirst(seq, x) ==
    LET i == CHOOSE k \in 1..Len(seq) :
                 seq[k] = x /\ \A j \in 1..(k - 1) : seq[j] # x
    IN  SubSeq(seq, 1, i - 1) \o SubSeq(seq, i + 1, Len(seq))

NumSubscriptions ==
    Len(wildcard_handlers) +
    Len(handlers["AGENT_STARTED"]) + Len(handlers["CUSTOM"])

\* EventBus.subscribe(event_type, handler, priority), event_type "*" for None
Subscribe ==
    /\ bus_pc = "idle"
    /\ NumSubscriptions < MaxSubscriptions
    /\ \E t \in BusEventTypes \cup {"*"}, h \in Handlers, prio \in Priorities :
          /\ IF t = "*"
             THEN /\ wildcard_handlers' =
                         SortByPriority(Append(wildcard_handlers, <<prio, h>>))
                  /\ UNCHANGED handlers
             ELSE /\ handlers' = [handlers EXCEPT
                                     ![t] = SortByPriority(Append(@, <<prio, h>>))]
                  /\ UNCHANGED wildcard_handlers
          /\ subscribed' = Append(subscribed, <<t, prio, h>>)
    /\ UNCHANGED <<history, bus_seq, bus_pc, bus_event, bus_pending, delivered,
                   bus_outcome, query>>
    /\ UNCHANGED libVars
    /\ UNCHANGED execVars
    /\ UNCHANGED callVars
    /\ UNCHANGED skillVars

\* The closure subscribe returned is called: the subscription is removed.
Unsubscribe ==
    /\ bus_pc = "idle"
    /\ \E t \in BusEventTypes \cup {"*"}, h \in Handlers, prio \in Priorities :
          /\ IF t = "*"
             THEN /\ <<prio, h>> \in Range(wildcard_handlers)
                  /\ wildcard_handlers' =
                         RemoveFirst(wildcard_handlers, <<prio, h>>)
                  /\ UNCHANGED handlers
             ELSE /\ <<prio, h>> \in Range(handlers[t])
                  /\ handlers' = [handlers EXCEPT
                                     ![t] = RemoveFirst(@, <<prio, h>>)]
                  /\ UNCHANGED wildcard_handlers
          /\ subscribed' = RemoveFirst(subscribed, <<t, prio, h>>)
    /\ UNCHANGED <<history, bus_seq, bus_pc, bus_event, bus_pending, delivered,
                   bus_outcome, query>>
    /\ UNCHANGED libVars
    /\ UNCHANGED execVars
    /\ UNCHANGED callVars
    /\ UNCHANGED skillVars

\* Mutant: the capacity test is off by one, the history grows to
\* max_history + 1 entries.
Recorded_OffByOne(hist, e) ==
    LET h == Append(hist, e) IN
    IF Len(h) > MaxHistory + 1 THEN SubSeq(h, 2, Len(h)) ELSE h

\* publish lines 128-130: append to the history, evict the oldest entry
Recorded(hist, e) ==
    LET h == Append(hist, e) IN
    IF Len(h) > MaxHistory THEN SubSeq(h, 2, Len(h)) ELSE h

\* publish lines 128-136: record the event, collect its handlers
PublishBegin ==
    /\ bus_pc = "idle"
    /\ bus_seq < MaxPublishes
    /\ \E type \in BusEventTypes :
          LET e == BusEvent(type, bus_seq + 1) IN
          /\ bus_event' = e
          /\ history' = Recorded(history, e)
          /\ bus_pending' = AllHandlers(handlers, wildcard_handlers, type)
    /\ bus_seq' = bus_seq + 1
    /\ delivered' = <<>>
    /\ bus_pc' = "delivering"
    /\ bus_outcome' = "none"
    /\ UNCHANGED <<handlers, wildcard_handlers, subscribed, query>>
    /\ UNCHANGED libVars
    /\ UNCHANGED execVars
    /\ UNCHANGED callVars
    /\ UNCHANGED skillVars

\* Mutant: there is no try/except around the handler call, so an error a
\* handler raises ends the delivery and reaches the publisher.
InvokeHandler_Propagate ==
    /\ bus_pc = "delivering"
    /\ bus_pending # <<>>
    /\ \E o \in {"ok", "raise"} :
          IF o = "ok"
          THEN /\ delivered' = Append(delivered,
                                      [priority |-> bus_pending[1][1],
                                       handler |-> bus_pending[1][2],
                                       event |-> bus_event,
                                       outcome |-> o])
               /\ bus_pending' = Tail(bus_pending)
               /\ UNCHANGED <<bus_pc, bus_event, bus_outcome>>
          ELSE /\ delivered' = <<>>
               /\ bus_pending' = <<>>
               /\ bus_pc' = "idle"
               /\ bus_event' = NoBusEvent
               /\ bus_outcome' = "raised"
    /\ UNCHANGED <<handlers, wildcard_handlers, history, bus_seq, subscribed,
                   query>>
    /\ UNCHANGED libVars
    /\ UNCHANGED execVars
    /\ UNCHANGED callVars
    /\ UNCHANGED skillVars

\* publish lines 138-144: the next handler is invoked (and awaited); an
\* error it raises is caught and printed
InvokeHandler ==
    /\ bus_pc = "delivering"
    /\ bus_pending # <<>>
    /\ \E o \in {"ok", "raise"} :
          delivered' = Append(delivered,
                              [priority |-> bus_pending[1][1],
                               handler |-> bus_pending[1][2],
                               event |-> bus_event,
                               outcome |-> o])
    /\ bus_pending' = Tail(bus_pending)
    /\ UNCHANGED <<handlers, wildcard_handlers, history, bus_seq, bus_pc,
                   bus_event, subscribed, bus_outcome, query>>
    /\ UNCHANGED libVars
    /\ UNCHANGED execVars
    /\ UNCHANGED callVars
    /\ UNCHANGED skillVars

\* publish returns once every handler was invoked
PublishReturn ==
    /\ bus_pc = "delivering"
    /\ bus_pending = <<>>
    /\ bus_pc' = "idle"
    /\ bus_event' = NoBusEvent
    /\ delivered' = <<>>
    /\ bus_outcome' = "returned"
    /\ UNCHANGED <<handlers, wildcard_handlers, history, bus_seq, bus_pending,
                   subscribed, query>>
    /\ UNCHANGED libVars
    /\ UNCHANGED execVars
    /\ UNCHANGED callVars
    /\ UNCHANGED skillVars

\* seq[k:] of Python: a negative k counts from the end, and the start is
\* clamped to the list
SliceFrom(seq, k) ==
    LET n     == Len(seq)
        first == IF k < 0
                 THEN (IF n + k < 0 THEN 0 ELSE n + k)
                 ELSE (IF k > n THEN n ELSE k)
    IN  SubSeq(seq, first + 1, n)

\* get_history lines 152-155: filter by type when one is given, then
\* history[-limit:]
HistorySlice(hist, type, limit) ==
    LET ofType(e) == e.type = type
        filtered  == IF type # "*" THEN SelectSeq(hist, ofType) ELSE hist
    IN  SliceFrom(filtered, -limit)

\* EventBus.get_history(event_type, limit), event_type "*" for None
GetHistory ==
    /\ bus_pc = "idle"
    /\ \E type \in BusEventTypes \cup {"*"}, limit \in 0..MaxLimit :
          query' = Query(type, limit, HistorySlice(history, type, limit))
    /\ UNCHANGED <<handlers, wildcard_handlers, history, bus_seq, bus_pc,
                   bus_event, bus_pending, delivered, subscribed, bus_outcome>>
    /\ UNCHANGED libVars
    /\ UNCHANGED execVars
    /\ UNCHANGED callVars
    /\ UNCHANGED skillVars

----------------------------------------------------------------------------
(* Registry *)

\* name in self._items
Has(name) == items[name] # Absent

\* Mutant: add() overwrites an existing name whether or not replacement
\* was asked for.
RegistryAdd_AlwaysReplace ==
    \E name \in RegNames, cls \in Classes, category \in Categories,
       replace \in BOOLEAN :
        /\ items' = [items EXCEPT ![name] = cls]
        /\ metadata' = [metadata EXCEPT ![name] = Metadata(category)]
        /\ categories' = [categories EXCEPT ![category] = @ \cup {name}]
        /\ reg_result' = RegResult("add", name, cls, category,
                                   BoolName(replace), "-", NoInstance, {}, "none")
        /\ UNCHANGED <<instances, constructed>>
        /\ UNCHANGED <<execVars, callVars, skillVars, busVars, pipeVars, chunkVars, retrVars>>

\* Registry.add(name, cls, category, metadata=None, replace); the decorator
\* register() calls it with the same arguments
RegistryAdd ==
    \E name \in RegNames, cls \in Classes, category \in Categories,
       replace \in BOOLEAN :
        IF Has(name) /\ ~replace
        THEN /\ reg_result' = RegResult("add", name, cls, category,
                                        BoolName(replace), "-", NoInstance, {},
                                        "DuplicateRegistrationError")
             /\ UNCHANGED <<items, instances, metadata, categories, constructed>>
             /\ UNCHANGED <<execVars, callVars, skillVars, busVars, pipeVars, chunkVars, retrVars>>
        ELSE /\ items' = [items EXCEPT ![name] = cls]
             /\ metadata' = [metadata EXCEPT ![name] = Metadata(category)]
             /\ categories' = [categories EXCEPT ![category] = @ \cup {name}]
             /\ reg_result' = RegResult("add", name, cls, category,
                                        BoolName(replace), "-", NoInstance, {},
                                        "none")
             /\ UNCHANGED <<instances, constructed>>
             /\ UNCHANGED <<execVars, callVars, skillVars, busVars, pipeVars, chunkVars, retrVars>>

\* Registry.remove(name)
RegistryRemove ==
    \E name \in RegNames :
        /\ IF ~Has(name)
           THEN UNCHANGED <<items, instances, metadata, categories>>
           ELSE /\ categories' =
                       [categories EXCEPT ![metadata[name].category] = @ \ {name}]
                /\ items' = [items EXCEPT ![name] = Absent]
                /\ metadata' = [metadata EXCEPT ![name] = NoMetadata]
                /\ instances' = [instances EXCEPT ![name] = NoInstance]
        /\ reg_result' = RegResult("remove", name, "-", "-", "-", "-",
                                   NoInstance, {}, "none")
        /\ UNCHANGED constructed
        /\ UNCHANGED <<execVars, callVars, skillVars, busVars, pipeVars, chunkVars, retrVars>>

\* Registry.get(name)
RegistryGet ==
    \E name \in RegNames :
        /\ reg_result' = RegResult("get", name, items[name], "-", "-", "-",
                                   NoInstance, {}, "none")
        /\ UNCHANGED <<items, instances, metadata, categories, constructed>>
        /\ UNCHANGED <<execVars, callVars, skillVars, busVars, pipeVars, chunkVars, retrVars>>

\* Mutant: get_instance does not look into the cache, it constructs and
\* stores a new instance on every call.
GetInstance_AlwaysConstruct ==
    \E name \in RegNames, args \in CtorArgs :
        /\ IF ~Has(name)
           THEN /\ reg_result' = RegResult("get_instance", name, "-", "-", "-",
                                           args, NoInstance, {}, "none")
                /\ UNCHANGED <<instances, constructed>>
           ELSE /\ constructed < MaxInstances
                /\ constructed' = constructed + 1
                /\ instances' = [instances EXCEPT
                       ![name] = Instance(items[name], args, constructed + 1)]
                /\ reg_result' = RegResult("get_instance", name, "-", "-", "-",
                                           args, instances'[name], {}, "none")
        /\ UNCHANGED <<items, metadata, categories>>
        /\ UNCHANGED <<execVars, callVars, skillVars, busVars, pipeVars, chunkVars, retrVars>>

\* Registry.get_instance(name, *args)
GetInstance ==
    \E name \in RegNames, args \in CtorArgs :
        /\ IF ~Has(name)
           THEN /\ reg_result' = RegResult("get_instance", name, "-", "-", "-",
                                           args, NoInstance, {}, "none")
                /\ UNCHANGED <<instances, constructed>>
           ELSE IF instances[name] = NoInstance
           THEN /\ constructed < MaxInstances
                /\ constructed' = constructed + 1
                /\ instances' = [instances EXCEPT
                       ![name] = Instance(items[name], args, constructed + 1)]
                /\ reg_result' = RegResult("get_instance", name, "-", "-", "-",
                                           args, instances'[name], {}, "none")
           ELSE /\ reg_result' = RegResult("get_instance", name, "-", "-", "-",
                                           args, instances[name], {}, "none")
                /\ UNCHANGED <<instances, constructed>>
        /\ UNCHANGED <<items, metadata, categories>>
        /\ UNCHANGED <<execVars, callVars, skillVars, busVars, pipeVars, chunkVars, retrVars>>

\* Registry.create(name, *args)
Create ==
    \E name \in RegNames, args \in CtorArgs :
        /\ IF ~Has(name)
           THEN /\ reg_result' = RegResult("create", name, "-", "-", "-", args,
                                           NoInstance, {}, "none")
                /\ UNCHANGED constructed
           ELSE /\ constructed < MaxInstances
                /\ constructed' = constructed + 1
                /\ reg_result' = RegResult("create", name, "-", "-", "-", args,
                       Instance(items[name], args, constructed + 1), {}, "none")
        /\ UNCHANGED <<items, instances, metadata, categories>>
        /\ UNCHANGED <<execVars, callVars, skillVars, busVars, pipeVars, chunkVars, retrVars>>

\* Registry.list_by_category(category)
ListByCategory ==
    \E category \in Categories :
        /\ reg_result' = RegResult("list_by_category", "-", "-", category, "-",
                                   "-", NoInstance, categories[category], "none")
        /\ UNCHANGED <<items, instances, metadata, categories, constructed>>
        /\ UNCHANGED <<execVars, callVars, skillVars, busVars, pipeVars, chunkVars, retrVars>>

\* Registry.clear()
RegistryClear ==
    /\ items' = [n \in RegNames |-> Absent]
    /\ instances' = [n \in RegNames |-> NoInstance]
    /\ metadata' = [n \in RegNames |-> NoMetadata]
    /\ categories' = [c \in Categories |-> {}]
    /\ reg_result' = RegResult("clear", "-", "-", "-", "-", "-", NoInstance, {},
                               "none")
    /\ UNCHANGED constructed
    /\ UNCHANGED <<execVars, callVars, skillVars, busVars, pipeVars, chunkVars, retrVars>>

----------------------------------------------------------------------------
(* DocumentChunker *)

\* The texts handed to chunk()
Texts == UNION {[1..n -> Chars] : n \in 0..MaxTextLen}

SetMax(S) == CHOOSE x \in S : \A y \in S : y <= x
SetMin(S) == CHOOSE x \in S : \A y \in S : x <= y

\* Mutant: the text is normalised by dropping all of its whitespace.
Strip_DropAllWhitespace(s) ==
    LET solid(c) == ~IsSpace(c) IN SelectSeq(s, solid)

\* str.strip(): leading and trailing whitespace removed
Strip(s) ==
    LET solid == {i \in 1..Len(s) : ~IsSpace(s[i])} IN
    IF solid = {} THEN <<>> ELSE SubSeq(s, SetMin(solid), SetMax(solid))

\* A slice bound of Python: negative bounds count from the end, and bounds
\* are clamped to 0..n
Norm(k, n) ==
    IF k < 0 THEN (IF n + k < 0 THEN 0 ELSE n + k)
    ELSE (IF k > n THEN n ELSE k)

\* s[a:b], 0-based and half-open
Slice(s, a, b) == SubSeq(s, Norm(a, Len(s)) + 1, Norm(b, Len(s)))

\* s.rfind(c, a, b): the highest 0-based index of c in s[a:b], -1 if none
RFind(s, c, a, b) ==
    LET found == {i \in Norm(a, Len(s))..(Norm(b, Len(s)) - 1) : s[i + 1] = c}
    IN  IF found = {} THEN -1 ELSE SetMax(found)

\* Mutant: the two offsets are passed in the wrong order.
Chunk_SwappedOffsets(content, md, start_index, end_index) ==
    [content |-> content, metadata |-> md, start_index |-> end_index,
     end_index |-> start_index]

\* Chunk(content, metadata, start_index, end_index)
Chunk(content, md, start_index, end_index) ==
    [content |-> content, metadata |-> md, start_index |-> start_index,
     end_index |-> end_index]

\* {**metadata, "chunk_index": index}
MergeMeta(md, index) ==
    [k \in DOMAIN md \cup {"chunk_index"} |->
        IF k = "chunk_index" THEN index ELSE md[k]]

\* Mutant: the test for an empty chunk text is missing.
Emit_AlwaysAppend(list, content, md, s, e) ==
    Append(list, Chunk(content, MergeMeta(md, Len(list)), s, e))

\* `if chunk_text: chunks.append(Chunk(...))` with chunk_index = len(chunks)
Emit(list, content, md, s, e) ==
    IF content # <<>>
    THEN Append(list, Chunk(content, MergeMeta(md, Len(list)), s, e))
    ELSE list

\* The last index of the run of characters of `set` that starts at i
RunEnd(s, i, set) ==
    CHOOSE j \in i..Len(s) :
        /\ \A k \in i..j : s[k] \in set
        /\ j = Len(s) \/ s[j + 1] \notin set

\* re.split(r"(?<=[.!?])\s+", text)
RECURSIVE SentencePieces(_, _, _, _)
SentencePieces(s, i, acc, pieces) ==
    IF i > Len(s) THEN Append(pieces, acc)
    ELSE IF i > 1 /\ s[i - 1] = Stop /\ IsSpace(s[i])
    THEN SentencePieces(s, RunEnd(s, i, {Space, Newline}) + 1, <<>>,
                        Append(pieces, acc))
    ELSE SentencePieces(s, i + 1, Append(acc, s[i]), pieces)

\* re.split(r"\n\n+", text)
RECURSIVE ParagraphPieces(_, _, _, _)
ParagraphPieces(s, i, acc, pieces) ==
    IF i > Len(s) THEN Append(pieces, acc)
    ELSE IF i < Len(s) /\ s[i] = Newline /\ s[i + 1] = Newline
    THEN ParagraphPieces(s, RunEnd(s, i, {Newline}) + 1, <<>>,
                         Append(pieces, acc))
    ELSE ParagraphPieces(s, i + 1, Append(acc, s[i]), pieces)

\* The loop with a test that compares against twice the chunk_size
RECURSIVE SemanticLoop_DoubleSize(_, _, _, _, _, _, _)
SemanticLoop_DoubleSize(sentences, i, current_chunk, current_start, list, size, md) ==
    IF i > Len(sentences)
    THEN Emit(list, Strip(current_chunk), md, current_start,
              current_start + Len(current_chunk))
    ELSE IF Len(current_chunk) + Len(sentences[i]) <= 2 * size
    THEN SemanticLoop_DoubleSize(sentences, i + 1,
                      current_chunk \o sentences[i] \o <<Space>>,
                      current_start, list, size, md)
    ELSE SemanticLoop_DoubleSize(sentences, i + 1, sentences[i] \o <<Space>>,
                      current_start + Len(current_chunk),
                      Emit(list, Strip(current_chunk), md, current_start,
                           current_start + Len(current_chunk)),
                      size, md)

\* _chunk_semantic lines 111-138: the loop over the sentences from the i-th
\* on, and the flush of the remaining text
RECURSIVE SemanticLoop(_, _, _, _, _, _, _)
SemanticLoop(sentences, i, current_chunk, current_start, list, size, md) ==
    IF i > Len(sentences)
    THEN Emit(list, Strip(current_chunk), md, current_start,
              current_start + Len(current_chunk))
    ELSE IF Len(current_chunk) + Len(sentences[i]) <= size
    THEN SemanticLoop(sentences, i + 1, current_chunk \o sentences[i] \o <<Space>>,
                      current_start, list, size, md)
    ELSE SemanticLoop(sentences, i + 1, sentences[i] \o <<Space>>,
                      current_start + Len(current_chunk),
                      Emit(list, Strip(current_chunk), md, current_start,
                           current_start + Len(current_chunk)),
                      size, md)

\* _chunk_paragraph lines 153-187
RECURSIVE ParagraphLoop(_, _, _, _, _, _, _, _)
ParagraphLoop(paragraphs, i, current_chunk, current_start, position, list, size, md) ==
    IF i > Len(paragraphs)
    THEN Emit(list, Strip(current_chunk), md, current_start, position)
    ELSE LET para == Strip(paragraphs[i]) IN
         IF para = <<>>
         THEN ParagraphLoop(paragraphs, i + 1, current_chunk, current_start,
                            position + 2, list, size, md)
         ELSE IF Len(current_chunk) + Len(para) <= size
         THEN ParagraphLoop(paragraphs, i + 1,
                            current_chunk \o para \o <<Newline, Newline>>,
                            current_start, position + Len(para) + 2, list,
                            size, md)
         ELSE ParagraphLoop(paragraphs, i + 1, para \o <<Newline, Newline>>,
                            position, position + Len(para) + 2,
                            Emit(list, Strip(current_chunk), md, current_start,
                                 position),
                            size, md)

\* DocumentChunker.chunk(text, strategy, metadata): the dispatch
ChunkCall ==
    /\ chunk_pc = "idle"
    /\ \E t \in Texts, c \in Chunkers, st \in Strategies, md \in Metadatas :
          /\ text' = t
          /\ chunker' = c
          /\ strategy' = st
          /\ chunk_meta' = md
          /\ chunk_pc' = st
    /\ start' = 0
    /\ chunks' = <<>>
    /\ UNCHANGED <<execVars, callVars, skillVars, busVars, pipeVars, regVars, retrVars>>

\* One iteration of the loop of _chunk_fixed_size, lines 74-94
FixedSizeStep ==
    /\ chunk_pc = "fixed_size"
    /\ start < Len(text)
    /\ Len(chunks) < MaxChunks
    /\ LET window     == IF start + chunker.chunk_size < Len(text)
                         THEN start + chunker.chunk_size ELSE Len(text)
           last_space == RFind(text, Space, start, window)
           end        == IF window < Len(text) /\ last_space > start
                         THEN last_space ELSE window
       IN  /\ chunks' = Emit(chunks, Strip(Slice(text, start, end)), chunk_meta,
                             start, end)
           /\ start' = IF end < Len(text) THEN end - chunker.chunk_overlap
                       ELSE Len(text)
    /\ UNCHANGED <<text, chunker, strategy, chunk_meta, chunk_pc>>
    /\ UNCHANGED <<execVars, callVars, skillVars, busVars, pipeVars, regVars, retrVars>>

\* Mutant: the sliding window breaks at word boundaries and advances from
\* the trimmed end, as the fixed-size strategy does.
SlidingWindowStep_WordBoundary ==
    /\ chunk_pc = "sliding_window"
    /\ start < Len(text)
    /\ Len(chunks) < MaxChunks
    /\ LET window     == IF start + chunker.chunk_size < Len(text)
                         THEN start + chunker.chunk_size ELSE Len(text)
           last_space == RFind(text, Space, start, window)
           end        == IF window < Len(text) /\ last_space > start
                         THEN last_space ELSE window
       IN  /\ chunks' = Emit(chunks, Strip(Slice(text, start, end)), chunk_meta,
                             start, end)
           /\ IF end >= Len(text)
              THEN /\ chunk_pc' = "done"
                   /\ UNCHANGED start
              ELSE /\ start' = end - chunker.chunk_overlap
                   /\ UNCHANGED chunk_pc
    /\ UNCHANGED <<text, chunker, strategy, chunk_meta>>
    /\ UNCHANGED <<execVars, callVars, skillVars, busVars, pipeVars, regVars, retrVars>>

\* One iteration of the loop of _chunk_sliding_window, lines 199-216
SlidingWindowStep ==
    /\ chunk_pc = "sliding_window"
    /\ start < Len(text)
    /\ Len(chunks) < MaxChunks
    /\ LET end == IF start + chunker.chunk_size < Len(text)
                  THEN start + chunker.chunk_size ELSE Len(text)
       IN  /\ chunks' = Emit(chunks, Strip(Slice(text, start, end)), chunk_meta,
                             start, end)
           /\ IF end >= Len(text)
              THEN /\ chunk_pc' = "done"
                   /\ UNCHANGED start
              ELSE /\ start' = start + (chunker.chunk_size - chunker.chunk_overlap)
                   /\ UNCHANGED chunk_pc
    /\ UNCHANGED <<text, chunker, strategy, chunk_meta>>
    /\ UNCHANGED <<execVars, callVars, skillVars, busVars, pipeVars, regVars, retrVars>>

\* The loop condition `start < len(text)` fails: chunks is returned
ChunkReturn ==
    /\ chunk_pc \in {"fixed_size", "sliding_window"}
    /\ start >= Len(text)
    /\ chunk_pc' = "done"
    /\ UNCHANGED <<text, chunker, strategy, chunk_meta, start, chunks>>
    /\ UNCHANGED <<execVars, callVars, skillVars, busVars, pipeVars, regVars, retrVars>>

\* _chunk_semantic
ChunkSemantic ==
    /\ chunk_pc = "semantic"
    /\ chunks' = SemanticLoop(SentencePieces(text, 1, <<>>, <<>>), 1, <<>>, 0,
                              <<>>, chunker.chunk_size, chunk_meta)
    /\ chunk_pc' = "done"
    /\ UNCHANGED <<text, chunker, strategy, chunk_meta, start>>
    /\ UNCHANGED <<execVars, callVars, skillVars, busVars, pipeVars, regVars, retrVars>>

\* _chunk_paragraph
ChunkParagraph ==
    /\ chunk_pc = "paragraph"
    /\ chunks' = ParagraphLoop(ParagraphPieces(text, 1, <<>>, <<>>), 1, <<>>, 0,
                               0, <<>>, chunker.chunk_size, chunk_meta)
    /\ chunk_pc' = "done"
    /\ UNCHANGED <<text, chunker, strategy, chunk_meta, start>>
    /\ UNCHANGED <<execVars, callVars, skillVars, busVars, pipeVars, regVars, retrVars>>

----------------------------------------------------------------------------
(* Retrieval: RAGRetriever and RAGService.query *)

RECURSIVE Pow2(_)
Pow2(k) == IF k = 0 THEN 1 ELSE 2 * Pow2(k - 1)

\* A Python float is a binary floating-point number: zero, or m * 2^e with a
\* mantissa m of MantissaBits significant bits
Float(m, e) == [m |-> m, e |-> e]

Zero == Float(0, 0)
One == Float(Pow2(MantissaBits - 1), 1 - MantissaBits)

\* Exponents of the floats the score computation produces
Exps == (-3 * MantissaBits - 3 * NumExps)..(3 * NumExps)

\* The float nearest to the positive real num/den, ties to the even mantissa
Round(num, den) ==
    LET lo == Pow2(MantissaBits - 1)
        hi == 2 * lo
        N(x) == IF x < 0 THEN num * Pow2(-x) ELSE num
        D(x) == IF x < 0 THEN den ELSE den * Pow2(x)
        e == CHOOSE x \in Exps : lo * D(x) <= N(x) /\ N(x) < hi * D(x)
        q == N(e) \div D(e)
        r == N(e) % D(e)
        up == 2 * r > D(e) \/ (2 * r = D(e) /\ q % 2 = 1)
        m == IF up THEN q + 1 ELSE q
    IN  IF m = hi THEN Float(lo, e + 1) ELSE Float(m, e)

\* The integer f * 2^(-k), for k at most the exponent of f
Scaled(f, k) == f.m * Pow2(f.e - k)

\* float.__add__
FloatAdd(a, b) ==
    LET k == SetMin({a.e, b.e, 0})
        n == Scaled(a, k) + Scaled(b, k)
    IN  IF n = 0 THEN Zero ELSE Round(n, Pow2(-k))

\* float.__truediv__, for a divisor that is not zero
FloatDiv(a, b) ==
    LET k == SetMin({a.e, b.e, 0})
    IN  IF a.m = 0 THEN Zero ELSE Round(Scaled(a, k), Scaled(b, k))

\* float.__lt__
FloatLess(a, b) ==
    LET k == SetMin({a.e, b.e, 0})
    IN  Scaled(a, k) < Scaled(b, k)

\* 1.0 + d
Score_Inverted(d) == FloatAdd(One, d)

\* 1.0 / (1.0 + d)
Score(d) == FloatDiv(One, FloatAdd(One, d))

\* Distances the store reports: zero, and the least and the greatest float
\* of NumExps binades, every third binade from 2^(-MantissaBits - 1) upwards
DistExps == {-2 * MantissaBits + 3 * j : j \in 0..(NumExps - 1)}
Distances == {Zero} \cup {Float(m, e) : m \in {Pow2(MantissaBits - 1), Pow2(MantissaBits) - 1}, e \in DistExps}

\* The score of every distance the store reports
Scores == [d \in Distances |-> Score(d)]

\* ChromaVectorStore.STYLE_COLLECTION, KNOWLEDGE_COLLECTION
STYLE_COLLECTION == "style_reference"
KNOWLEDGE_COLLECTION == "knowledge_base"
Collections == {STYLE_COLLECTION, KNOWLEDGE_COLLECTION}

\* settings.rag.default_n_results
default_n_results == 5

\* The documents of the store
K1 == Document("k1", <<"x">>, <<"T">>, Missing)
K2 == Document("k2", <<>>, <<>>, <<"s">>)
S1 == Document("s1", <<"x", "x", "x", "x", "x", "x", "x", "x", "x", "x">>, <<>>, Missing)
S2 == Document("s2", <<"x", "x">>, <<>>, <<>>)

Stored(collection) == IF collection = STYLE_COLLECTION THEN {S1, S2} ELSE {K1, K2}

\* Sequences of k distinct elements of S
Arrangements(S, k) == {s \in [1..k -> S] : \A i, j \in 1..k : s[i] = s[j] => i = j}

\* Sequences of k distances, nearest first
Ranked(k) == {d \in [1..k -> Distances] : \A i \in 1..k : i < k => ~FloatLess(d[i + 1], d[i])}

\* QueryResult(documents, distances)
QueryResult(documents, distances) == [documents |-> documents, distances |-> distances]

\* What collection.query may answer when asked for n results with documents,
\* metadatas and distances included: at most n documents of the collection,
\* nearest first, and the distance of each
AnswersOfLength == [collection \in Collections, k \in 0..2 |-> {QueryResult(docs, ds) : docs \in Arrangements(Stored(collection), k), ds \in Ranked(k)}]

StoreAnswers(collection, n) ==
    UNION {AnswersOfLength[collection, k] : k \in 0..SetMin({n, Cardinality(Stored(collection))})}

\* A call made on the embedding service, the vector store or the event bus,
\* and the QueryResult it returned if it was made on the store
Call(name, arg, n, returned) == [call |-> name, arg |-> arg, n |-> n, returned |-> returned]

NoAnswer == QueryResult(<<>>, <<>>)

\* RAGRetriever.__init__: the embedding service handed in, else
\* OpenAIEmbeddings(), else None when no API key is configured
NewRetriever ==
    /\ embedding_service = "unset"
    /\ embedding_service' \in {None, "OpenAIEmbeddings"}
    /\ UNCHANGED <<rag_calls, retrieval, combined, format_call>>
    /\ UNCHANGED <<execVars, callVars, skillVars, busVars, pipeVars, regVars, chunkVars>>

\* n = n_results or self.default_n_results
EffectiveN(n_results) == IF n_results = 0 THEN default_n_results ELSE n_results

\* retrieve, always by the store's text query
Retrieval_TextOnly(collection, n_results, answer, embedded) ==
    [calls |-> <<Call("query_by_text", collection, EffectiveN(n_results), answer)>>,
     raised |-> FALSE,
     result |-> RetrievalResult(answer.documents, [i \in 1..Len(answer.distances) |-> Scores[answer.distances[i]]], collection)]

\* RAGRetriever.retrieve, given the store's answer and whether embed_text
\* succeeds: the calls it makes, whether it raises, and what it returns
Retrieval(collection, n_results, answer, embedded) ==
    LET n == EffectiveN(n_results)
        calls == IF embedding_service # None
                 THEN IF embedded
                      THEN <<Call("embed_text", "ok", 0, NoAnswer), Call("query", collection, n, answer)>>
                      ELSE <<Call("embed_text", "EmbeddingError", 0, NoAnswer)>>
                 ELSE <<Call("query_by_text", collection, n, answer)>>
        scores == IF answer.distances # <<>>
                  THEN [i \in 1..Len(answer.distances) |-> Scores[answer.distances[i]]]
                  ELSE <<>>
    IN  [calls |-> calls,
         raised |-> embedding_service # None /\ ~embedded,
         result |-> RetrievalResult(answer.documents, scores, collection)]

NoCombined == [style |-> NoRetrieval, knowledge |-> NoRetrieval]

\* RAGRetriever.retrieve_combined: style first, then knowledge
Combined(style_results, knowledge_results, style_answer, knowledge_answer, style_embedded, knowledge_embedded) ==
    LET style == Retrieval(STYLE_COLLECTION, style_results, style_answer, style_embedded)
        knowledge == Retrieval(KNOWLEDGE_COLLECTION, knowledge_results, knowledge_answer, knowledge_embedded)
    IN  IF style.raised
        THEN [calls |-> style.calls, raised |-> TRUE, dict |-> NoCombined]
        ELSE IF knowledge.raised
        THEN [calls |-> style.calls \o knowledge.calls, raised |-> TRUE, dict |-> NoCombined]
        ELSE [calls |-> style.calls \o knowledge.calls, raised |-> FALSE,
              dict |-> [style |-> style.result, knowledge |-> knowledge.result]]

\* A call of retrieve(query, collection, n_results).  A retrieval reads
\* nothing an earlier retrieval wrote, so one call is followed per retriever.
Retrieve ==
    /\ embedding_service # "unset"
    /\ rag_calls = <<>>
    /\ \E collection \in Collections, n_results \in 0..MaxResults, embedded \in BOOLEAN :
       \E answer \in StoreAnswers(collection, EffectiveN(n_results)) :
          LET r == Retrieval(collection, n_results, answer, embedded)
          IN  /\ rag_calls' = r.calls
              /\ retrieval' = IF r.raised THEN NoRetrieval ELSE r.result
              /\ combined' = NoCombined
    /\ UNCHANGED <<embedding_service, format_call>>
    /\ UNCHANGED <<execVars, callVars, skillVars, busVars, pipeVars, regVars, chunkVars>>

\* A call of retrieve_combined(query, style_results, knowledge_results)
RetrieveCombined ==
    /\ embedding_service # "unset"
    /\ rag_calls = <<>>
    /\ \E style_results, knowledge_results \in 0..MaxResults, se, ke \in BOOLEAN :
       \E sa \in StoreAnswers(STYLE_COLLECTION, EffectiveN(style_results)),
          ka \in StoreAnswers(KNOWLEDGE_COLLECTION, EffectiveN(knowledge_results)) :
          LET c == Combined(style_results, knowledge_results, sa, ka, se, ke)
          IN  /\ rag_calls' = c.calls
              /\ combined' = c.dict
              /\ retrieval' = NoRetrieval
    /\ UNCHANGED <<embedding_service, format_call>>
    /\ UNCHANGED <<execVars, callVars, skillVars, busVars, pipeVars, regVars, chunkVars>>

\* The merge of RAGService.query, style documents first
Merged_StyleFirst(dict, n_results) ==
    RetrievalResult(Slice(dict.style.documents \o dict.knowledge.documents, 0, n_results),
                    Slice(dict.style.scores \o dict.knowledge.scores, 0, n_results),
                    "combined")

\* The merge of RAGService.query: knowledge before style, cut to n_results
Merged(dict, n_results) ==
    RetrievalResult(Slice(dict.knowledge.documents \o dict.style.documents, 0, n_results),
                    Slice(dict.knowledge.scores \o dict.style.scores, 0, n_results),
                    "combined")

\* A call of RAGService.query(query, collection, n_results)
RagQuery ==
    /\ embedding_service # "unset"
    /\ rag_calls = <<>>
    /\ \E collection \in Collections \cup {None}, n_results \in 0..MaxResults, se, ke \in BOOLEAN :
       LET started == <<Call("RAGService.query", collection, n_results, NoAnswer),
                        Call("publish", "RAG_QUERY_STARTED", 0, NoAnswer)>>
           completed(r) == <<Call("publish", "RAG_QUERY_COMPLETED", Len(r.documents), NoAnswer)>>
       IN  IF collection # None
           THEN \E answer \in StoreAnswers(collection, EffectiveN(n_results)) :
                   LET r == Retrieval(collection, n_results, answer, se)
                   IN  /\ rag_calls' = started \o r.calls \o (IF r.raised THEN <<>> ELSE completed(r.result))
                       /\ retrieval' = IF r.raised THEN NoRetrieval ELSE r.result
                       /\ combined' = NoCombined
           ELSE \E sa \in StoreAnswers(STYLE_COLLECTION, EffectiveN(n_results \div 2)),
                   ka \in StoreAnswers(KNOWLEDGE_COLLECTION, EffectiveN(n_results)) :
                   LET c == Combined(n_results \div 2, n_results, sa, ka, se, ke)
                       r == Merged(c.dict, n_results)
                   IN  /\ rag_calls' = started \o c.calls \o (IF c.raised THEN <<>> ELSE completed(r))
                       /\ retrieval' = IF c.raised THEN NoRetrieval ELSE r
                       /\ combined' = c.dict
    /\ UNCHANGED <<embedding_service, format_call>>
    /\ UNCHANGED <<execVars, callVars, skillVars, busVars, pipeVars, regVars, chunkVars>>

\* str(n) for a positive integer
RECURSIVE Decimal(_)
Decimal(n) ==
    LET digit == <<"0", "1", "2", "3", "4", "5", "6", "7", "8", "9">>[(n % 10) + 1]
    IN  IF n < 10 THEN <<digit>> ELSE Decimal(n \div 10) \o <<digit>>

\* f"[Source {i + 1}: {title or source}]", i counting from 0
Header(i, doc) ==
    LET source == IF doc.source = Missing THEN <<"U", "n", "k", "n", "o", "w", "n">> ELSE doc.source
        title == IF doc.title = Missing THEN <<>> ELSE doc.title
    IN  <<"[", "S", "o", "u", "r", "c", "e", " ">> \o Decimal(i + 1) \o <<":", " ">>
        \o (IF title # <<>> THEN title ELSE source) \o <<"]">>

\* f"{header}\n{content}\n"
Section(i, doc) == Header(i, doc) \o <<Newline>> \o doc.content \o <<Newline>>

\* The loop of format_context that skips a section that does not fit and
\* goes on with the next document
RECURSIVE ContextParts_Continue(_, _, _, _, _)
ContextParts_Continue(documents, i, context_parts, current_length, max_length) ==
    IF i >= Len(documents) THEN context_parts
    ELSE LET section == Section(i, documents[i + 1])
         IN  IF current_length + Len(section) > max_length
             THEN ContextParts_Continue(documents, i + 1, context_parts, current_length, max_length)
             ELSE ContextParts_Continue(documents, i + 1, Append(context_parts, section),
                                        current_length + Len(section), max_length)

\* The loop of format_context from document i on: context_parts when it ends
RECURSIVE ContextParts(_, _, _, _, _)
ContextParts(documents, i, context_parts, current_length, max_length) ==
    IF i >= Len(documents) THEN context_parts
    ELSE LET section == Section(i, documents[i + 1])
         IN  IF current_length + Len(section) > max_length
             THEN context_parts
             ELSE ContextParts(documents, i + 1, Append(context_parts, section),
                               current_length + Len(section), max_length)

\* sep.join(parts)
RECURSIVE Join(_, _)
Join(sep, parts) ==
    IF parts = <<>> THEN <<>>
    ELSE IF Len(parts) = 1 THEN parts[1]
    ELSE parts[1] \o sep \o Join(sep, Tail(parts))

\* Results handed to format_context
DocLists == UNION {Arrangements({K1, K2, S1, S2}, k) : k \in 0..MaxDocs}

\* A call of format_context(retrieval_result, max_length)
FormatContext ==
    /\ format_call = NoFormatCall
    /\ \E documents \in DocLists, max_length \in 0..MaxLength :
       LET context_parts == ContextParts(documents, 0, <<>>, 0, max_length)
       IN  format_call' = [documents |-> documents, max_length |-> max_length,
                           parts |-> context_parts,
                           returned |-> Join(<<Newline>>, context_parts)]
    /\ UNCHANGED <<embedding_service, rag_calls, retrieval, combined>>
    /\ UNCHANGED <<execVars, callVars, skillVars, busVars, pipeVars, regVars, chunkVars>>

----------------------------------------------------------------------------
(* EventBus.publish called from several coroutines of one event loop *)

\* What the steps of a publishing coroutine leave alone
BusUntouched ==
    /\ UNCHANGED <<handlers, wildcard_handlers, bus_pc, bus_event, bus_pending,
                   delivered, subscribed, bus_outcome, query>>
    /\ UNCHANGED <<stage_outputs, content_result, task_error, pipeline_context,
                   task_metadata, research>>
    /\ UNCHANGED <<execVars, callVars, skillVars, storeVars>>

\* Handlers are subscribed before the coroutines start to publish
CoSubscribe ==
    /\ bus_seq = 0
    /\ Subscribe

\* publish lines 128-136 in coroutine p, which gets the loop: record the
\* event, collect its handlers
CoPublishBegin(p) ==
    /\ event_loop.running = 0
    /\ event_loop.coroutines[p].pc = "idle"
    /\ bus_seq < MaxPublishes
    /\ \E type \in BusEventTypes :
          LET e == BusEvent(type, bus_seq + 1) IN
          /\ history' = Recorded(history, e)
          /\ event_loop' = [running |-> p,
                coroutines |-> [event_loop.coroutines EXCEPT ![p] =
                    Coroutine("delivering", e,
                              AllHandlers(handlers, wildcard_handlers, type), 0)]]
    /\ bus_seq' = bus_seq + 1
    /\ BusUntouched

\* line 140: result = handler(event)
CoInvoke(p) ==
    /\ event_loop.running = p
    /\ event_loop.coroutines[p].pc = "delivering"
    /\ event_loop.coroutines[p].pending # <<>>
    /\ event_loop' = [event_loop EXCEPT !.coroutines[p] =
           Coroutine("in_handler", @.event, Tail(@.pending), @.pending[1][2])]
    /\ UNCHANGED <<history, bus_seq>>
    /\ BusUntouched

\* lines 140-144: the handler, or the coroutine it returned and publish
\* awaits, ends (an error is caught); the loop goes on to the next handler
CoHandlerEnd(p) ==
    /\ event_loop.running = p
    /\ event_loop.coroutines[p].pc = "in_handler"
    /\ event_loop' = [event_loop EXCEPT !.coroutines[p] =
           Coroutine("delivering", @.event, @.pending, 0)]
    /\ UNCHANGED <<history, bus_seq>>
    /\ BusUntouched

\* line 142: the awaited coroutine of the handler suspends and the event
\* loop is free to run another coroutine
CoSuspend(p) ==
    /\ event_loop.running = p
    /\ event_loop.coroutines[p].pc = "in_handler"
    /\ event_loop' = [running |-> 0,
          coroutines |-> [event_loop.coroutines EXCEPT ![p] =
              Coroutine("suspended", @.event, @.pending, @.handler)]]
    /\ UNCHANGED <<history, bus_seq>>
    /\ BusUntouched

\* The event loop resumes the handler that coroutine p awaits
CoResume(p) ==
    /\ event_loop.running \in {0, p}
    /\ event_loop.coroutines[p].pc = "suspended"
    /\ event_loop' = [running |-> p,
          coroutines |-> [event_loop.coroutines EXCEPT ![p] =
              Coroutine("in_handler", @.event, @.pending, @.handler)]]
    /\ UNCHANGED <<history, bus_seq>>
    /\ BusUntouched

\* publish returns in coroutine p, which then gives up the loop
CoPublishReturn(p) ==
    /\ event_loop.running = p
    /\ event_loop.coroutines[p].pc = "delivering"
    /\ event_loop.coroutines[p].pending = <<>>
    /\ event_loop' = [running |-> 0,
          coroutines |-> [event_loop.coroutines EXCEPT ![p] = NotPublishing]]
    /\ UNCHANGED <<history, bus_seq>>
    /\ BusUntouched

NextConcurrent ==
    \/ CoSubscribe
    \/ \E p \in Publishers : CoPublishBegin(p)
    \/ \E p \in Publishers : CoInvoke(p)
    \/ \E p \in Publishers : CoHandlerEnd(p)
    \/ \E p \in Publishers : CoSuspend(p)
    \/ \E p \in Publishers : CoResume(p)
    \/ \E p \in Publishers : CoPublishReturn(p)

SpecConcurrent == Init /\ [][NextConcurrent]_vars

----------------------------------------------------------------------------
(* ResearchAgent._execute_task and the rag_query skill *)

default_max_length == 3000

\* RAGQuerySkill._execute lines 63-106 when the retrieval gave `documents`
RagQueryExecute(documents, format_as_context) ==
    SkillOutcome("true",
        IF format_as_context
        THEN [type |-> "str",
              value |-> Join(<<Newline>>,
                             ContextParts(documents, 0, <<>>, 0, default_max_length))]
        ELSE [type |-> "dict", documents |-> documents])

\* lines 108-117: the retrieval raised
RagQueryFailed == SkillOutcome("false", NoneValue)

\* research_agent.py lines 83-86
RagDocs(rag_result) ==
    IF rag_result.success = "true" /\ rag_result.output.type = "dict"
    THEN rag_result.output.documents
    ELSE <<>>

\* lines 51-68: a research task arrives, with or without user_context
ResearchExecuteTask ==
    /\ research.pc = "idle"
    /\ \E user_context \in {<<>>, <<Letter>>} :
          research' = [NoResearch EXCEPT !.pc = "rag_query",
                                         !.user_context = user_context]
    /\ UNCHANGED <<stage_outputs, content_result, task_error, pipeline_context, task_metadata, event_loop>>
    /\ UNCHANGED <<execVars, callVars, skillVars, busVars, storeVars>>

\* lines 70-88: the rag_query skill is run with query, collection and
\* n_results, so format_as_context keeps its default True; then the test
\* that decides on the web search
ResearchRagQuery ==
    /\ research.pc = "rag_query"
    /\ \E ok \in BOOLEAN, documents \in DocLists :
          /\ ~ok => documents = <<>>
          /\ LET rag_result == IF ok THEN RagQueryExecute(documents, TRUE)
                                ELSE RagQueryFailed
                 rag_docs == RagDocs(rag_result)
             IN  research' = [research EXCEPT
                     !.retrieved = documents,
                     !.rag_result = rag_result,
                     !.skills = Append(@, "rag_query"),
                     !.pc = IF Len(rag_docs) < 3 THEN "web_search" ELSE "analysis"]
    /\ UNCHANGED <<stage_outputs, content_result, task_error, pipeline_context, task_metadata, event_loop>>
    /\ UNCHANGED <<execVars, callVars, skillVars, busVars, storeVars>>

\* lines 89-99: the web_search skill
ResearchWebSearch ==
    /\ research.pc = "web_search"
    /\ \E ok \in BOOLEAN :
          research' = [research EXCEPT
              !.skills = Append(@, "web_search"),
              !.web_results = IF ok THEN [type |-> "dict"] ELSE NoneValue,
              !.pc = "analysis"]
    /\ UNCHANGED <<stage_outputs, content_result, task_error, pipeline_context, task_metadata, event_loop>>
    /\ UNCHANGED <<execVars, callVars, skillVars, busVars, storeVars>>

\* lines 103-165: the llm_call skill, the research brief, the TaskResult
ResearchAnalysis ==
    /\ research.pc = "analysis"
    /\ \E ok \in BOOLEAN :
          research' = [research EXCEPT
              !.skills = Append(@, "llm_call"),
              !.analysis = IF ok THEN [type |-> "str"] ELSE NoneValue,
              !.pc = "done"]
    /\ UNCHANGED <<stage_outputs, content_result, task_error, pipeline_context, task_metadata, event_loop>>
    /\ UNCHANGED <<execVars, callVars, skillVars, busVars, storeVars>>

\* The caller has the TaskResult; the locals are gone
ResearchReturn ==
    /\ research.pc = "done"
    /\ research' = NoResearch
    /\ UNCHANGED <<stage_outputs, content_result, task_error, pipeline_context, task_metadata, event_loop>>
    /\ UNCHANGED <<execVars, callVars, skillVars, busVars, storeVars>>

NextResearch ==
    \/ ResearchExecuteTask
    \/ ResearchRagQuery
    \/ ResearchWebSearch
    \/ ResearchAnalysis
    \/ ResearchReturn

SpecResearch == Init /\ [][NextResearch]_vars

----------------------------------------------------------------------------
(* Specification of the agent framework: orchestrator, agents, pipeline *)

Next ==
    \/ Initialize
    \/ CallExecute
    \/ ExecuteTask
    \/ RouteTask
    \/ OrchestratorReturn
    \/ AgentStart
    \/ \E o \in LogicOutcomes : AgentLogic(o)
    \/ AgentComplete
    \/ AgentExcept
    \/ CreateContent
    \/ StageStart
    \/ StageEnd
    \/ PipelineComplete
    \/ PipelineExcept
    \/ Return

Spec == Init /\ [][Next]_vars

----------------------------------------------------------------------------
(* Specification of the skill framework *)

NextSkill ==
    \/ CallValidate
    \/ CallSkillExecute
    \/ ExecuteSkill
    \/ ExecuteSkillInvalid
    \/ SkillStart
    \/ \E o \in LogicOutcomes : SkillLogic(o)
    \/ SkillComplete
    \/ SkillExcept
    \/ Return

SpecSkill == Init /\ [][NextSkill]_vars

----------------------------------------------------------------------------
(* Specification of the whole execution framework: agents and skills *)

NextFramework ==
    \/ Initialize
    \/ CallExecute
    \/ ExecuteTask
    \/ RouteTask
    \/ OrchestratorReturn
    \/ AgentStart
    \/ \E o \in LogicOutcomes : AgentLogic(o)
    \/ AgentComplete
    \/ AgentExcept
    \/ CreateContent
    \/ StageStart
    \/ StageEnd
    \/ PipelineComplete
    \/ PipelineExcept
    \/ CallValidate
    \/ CallSkillExecute
    \/ ExecuteSkill
    \/ ExecuteSkillInvalid
    \/ SkillStart
    \/ \E o \in LogicOutcomes : SkillLogic(o)
    \/ SkillComplete
    \/ SkillExcept
    \/ Return

SpecFramework == Init /\ [][NextFramework]_vars

----------------------------------------------------------------------------
(* Specification of the event bus *)

NextBus ==
    \/ Subscribe
    \/ Unsubscribe
    \/ PublishBegin
    \/ InvokeHandler
    \/ PublishReturn

SpecBus == Init /\ [][NextBus]_vars

----------------------------------------------------------------------------
(* Properties of the agent framework *)

\* An event that carries the failure of an agent execution
IsAgentFailure(e) ==
    \/ e.type = "AGENT_FAILED"
    \/ e.type = "AGENT_COMPLETED" /\ e.success = "false"

IndexOf(seq, x) == CHOOSE i \in 1..Len(seq) : seq[i] = x

Last(seq) == seq[Len(seq)]

\* C1: in create_content, once a stage's agent call has ended with
\* success=false or has raised, no agent of a later stage is invoked, no
\* ContentResult is returned, and the caller gets a raised exception.
C1_FailFast ==
    op = "create_content" =>
        \A i \in 1..Len(published) :
            IsAgentFailure(published[i]) =>
                /\ Last(invoked) = published[i].source
                /\ \A j \in (i + 1)..Len(published) :
                       published[j].type \notin
                           {"AGENT_STARTED", "PIPELINE_STAGE_STARTED",
                            "PIPELINE_COMPLETED"}
                /\ outcome # "returned_ok"
                /\ pc \notin {"stage_start", "agent_start", "agent_logic",
                              "pipeline_compile"}
                /\ pc = "done" => outcome = "raised" /\ raised # NoError

\* C1 witness: the edit stage returned success=false, the run raised, and
\* only research, writer and editor were invoked.
C1_Witness ==
    /\ op = "create_content"
    /\ pc = "done"
    /\ outcome = "raised"
    /\ invoked = <<"research", "writer", "editor">>
    /\ \E i \in 1..Len(published) :
           /\ published[i].type = "AGENT_COMPLETED"
           /\ published[i].source = "editor"
           /\ published[i].success = "false"

\* The order of the stages as the claim states it
ClaimedOrder ==
    <<"research", "writer", "editor", "seo", "quality_reviewer",
      "image_prompt", "visual_suggestion">>

\* C2: in create_content the agents are invoked in the fixed order, each at
\* most once, and the agent of stage k+1 is invoked only after the agent
\* call of stage k has returned.
C2_FixedOrderNoRetry ==
    op = "create_content" =>
        /\ Len(invoked) <= Len(ClaimedOrder)
        /\ invoked = SubSeq(ClaimedOrder, 1, Len(invoked))
        /\ \A i \in 1..Len(published) :
               published[i].type = "AGENT_STARTED" =>
                   LET k == IndexOf(ClaimedOrder, published[i].source) IN
                   k > 1 =>
                       \E j \in 1..(i - 1) :
                           /\ published[j].type = "AGENT_COMPLETED"
                           /\ published[j].source = ClaimedOrder[k - 1]
                           /\ published[j].success = "true"

\* C2 witness: a run in which all seven agents were invoked.
C2_Witness ==
    /\ op = "create_content"
    /\ pc = "done"
    /\ invoked = ClaimedOrder

AllowedStatusStep(old, new) ==
    \/ new = old
    \/ old = "PENDING" /\ new = "IN_PROGRESS"
    \/ old = "IN_PROGRESS" /\ new \in {"COMPLETED", "FAILED"}

\* C3: a Task's status changes only along PENDING -> IN_PROGRESS ->
\* {COMPLETED, FAILED}, also when the same Task object is submitted again;
\* a COMPLETED or FAILED task never changes status again.
C3_StatusLifecycle ==
    [][\A t \in PoolTasks :
          AllowedStatusStep(task_status[t], task_status'[t])]_vars

\* The agent call in progress has returned a TaskResult to its caller
AgentReturned == pc \in {"return", "stage_end"} /\ cur_agent # "none"

\* C4: when pre-hook, logic and post-hook return normally, on return the
\* status is COMPLETED iff the result's success flag is true and FAILED
\* otherwise, and the call published exactly AGENT_STARTED (before the logic
\* ran) and then AGENT_COMPLETED (carrying the status already set), and no
\* AGENT_FAILED.
C4_NormalReturn ==
    /\ AgentReturned =>
          LET n == Len(published) IN
          /\ result \in {"ok", "fail"}
          /\ task_status[cur_task] = "COMPLETED" <=> result = "ok"
          /\ task_status[cur_task] = "FAILED" <=> result = "fail"
          /\ n >= 2
          /\ published[n - 1] =
                 Event("AGENT_STARTED", cur_agent, "-", "IN_PROGRESS", "-")
          /\ published[n] =
                 Event("AGENT_COMPLETED", cur_agent, "-",
                       task_status[cur_task], BoolName(result = "ok"))
          /\ Cardinality({i \in 1..n : published[i].source = cur_agent}) = 2
    /\ pc = "agent_logic" =>
          /\ Last(published) =
                 Event("AGENT_STARTED", cur_agent, "-", "IN_PROGRESS", "-")
          /\ Cardinality({i \in 1..Len(published) :
                             published[i].source = cur_agent}) = 1

\* C4 witness: an agent called directly returned success=false.
C4_Witness ==
    /\ op = "execute"
    /\ pc = "return"
    /\ result = "fail"
    /\ task_status[cur_task] = "FAILED"

\* C5: when the task logic raises, the status is FAILED, AGENT_FAILED was
\* published after AGENT_STARTED and without AGENT_COMPLETED, and an
\* AgentExecutionError naming agent, task and reason reaches the caller; no
\* TaskResult is returned.
C5_LogicErrorRaises ==
    /\ raised.type = "Error" =>
          /\ pc = "agent_except"
          /\ Last(published).type = "AGENT_STARTED"
    /\ \A i \in 1..Len(published) :
          published[i].type = "AGENT_FAILED" =>
              /\ i > 1
              /\ published[i - 1] =
                     Event("AGENT_STARTED", cur_agent, "-", "IN_PROGRESS", "-")
              /\ published[i] =
                     Event("AGENT_FAILED", cur_agent, "-", "FAILED", "-")
              /\ \A j \in 1..Len(published) :
                     published[j].source = cur_agent =>
                         published[j].type # "AGENT_COMPLETED"
              /\ task_status[cur_task] = "FAILED"
              /\ raised.type = "AgentExecutionError"
              /\ raised.agent = cur_agent
              /\ raised.task = cur_task
              /\ raised.reason \in {"pre_raise", "logic_raise", "post_raise"}
              /\ result = "none"
              /\ pc \in {"done", "pipeline_except"}
              /\ pc = "done" => outcome = "raised"
    /\ raised.type = "AgentExecutionError" =>
          \E i \in 1..Len(published) : published[i].type = "AGENT_FAILED"

\* C5 witness: the logic of an agent run through execute_task raised and the
\* caller got the AgentExecutionError.
C5_Witness ==
    /\ op = "execute_task"
    /\ pc = "done"
    /\ outcome = "raised"
    /\ raised.type = "AgentExecutionError"
    /\ raised.reason = "logic_raise"

----------------------------------------------------------------------------
(* Properties of the skill framework *)

\* The context is one that validation rejects: a required parameter is
\* missing, or a parameter carries a value of the wrong type.
Rejected(s, c) ==
    \E i \in 1..Len(Parameters(s)) :
        LET param == Parameters(s)[i] IN
        \/ param.required /\ Get(c, param.name) = None
        \/ /\ Get(c, param.name) # None
           /\ ~IsInstance(Get(c, param.name), param.param_type)

C7_SkillErrorReturned ==
    op \in {"skill_execute", "execute_skill"} =>
        /\ raised.type = "Error" =>
              /\ pc = "skill_except"
              /\ Types(published) = <<"SKILL_STARTED">>
        /\ (pc = "done" /\ op = "skill_execute") => outcome # "raised"
        /\ (\E i \in 1..Len(published) : published[i].type = "SKILL_FAILED") =>
              /\ Types(published) = <<"SKILL_STARTED", "SKILL_FAILED">>
              /\ published[1].source = skill
              /\ published[2].source = skill
              /\ pc = "done"
              /\ raised = NoError
              /\ outcome = "returned_fail"
              /\ skill_result.success = "false"
              /\ skill_result.status = "FAILED"
              /\ Len(skill_result.errors) = 1
              /\ skill_result.errors[1] \in
                     {"pre_raise", "logic_raise", "post_raise"}

\* C7 witness: the post-hook of a directly executed skill raised and the
\* caller got the failed result.
C7_Witness ==
    /\ op = "skill_execute"
    /\ pc = "done"
    /\ outcome = "returned_fail"
    /\ skill_result.errors = <<"post_raise">>
    /\ logic_runs = 1

\* A declared parameter is violated, reading "absent" as "the key is not in
\* params" and "present" as "the key is in params".
ViolatedLiteral(param, c) ==
    \/ param.required /\ param.name \notin DOMAIN c
    \/ /\ param.name \in DOMAIN c
       /\ ~IsInstance(c[param.name], param.param_type)

\* A declared parameter is violated, a value of None counting as absent.
ViolatedNoneAbsent(param, c) ==
    \/ param.required /\ Get(c, param.name) = None
    \/ /\ Get(c, param.name) # None
       /\ ~IsInstance(Get(c, param.name), param.param_type)

Names(seq) == [i \in 1..Len(seq) |-> seq[i].name]

\* C8 as stated: the errors of validate are, in declaration order, one entry
\* for each declared parameter that is required and absent or present with a
\* value of the wrong type; valid iff there is none.
C8_ValidateLiteral ==
    (op = "validate" /\ pc = "done") =>
        LET bad == SelectSeq(Parameters(skill),
                             LAMBDA param : ViolatedLiteral(param, ctx)) IN
        /\ Names(validation.errors) = Names(bad)
        /\ validation.valid = "true" <=> Len(bad) = 0

\* C8 amended: the same, where a parameter whose value is None counts as
\* absent: it is reported as missing when required and not reported when
\* optional.
C8_ValidateErrors ==
    (op = "validate" /\ pc = "done") =>
        LET bad == SelectSeq(Parameters(skill),
                             LAMBDA param : ViolatedNoneAbsent(param, ctx)) IN
        /\ Names(validation.errors) = Names(bad)
        /\ \A i \in 1..Len(validation.errors) :
               validation.errors[i].kind =
                   IF Get(ctx, validation.errors[i].name) = None
                   THEN "missing" ELSE "type"
        /\ validation.valid = "true" <=> Len(validation.errors) = 0
        /\ validation.valid \in {"true", "false"}

\* C8 witness: two violations accumulate (query missing, max_results of the
\* wrong type) while an optional parameter given as None is not reported.
C8_Witness ==
    /\ op = "validate"
    /\ pc = "done"
    /\ skill = "web_search"
    /\ "region" \in DOMAIN ctx
    /\ ctx["region"] = None
    /\ Names(validation.errors) = <<"query", "max_results">>

----------------------------------------------------------------------------
(* Properties of the whole execution framework *)

IsFailureEvent(e) ==
    \/ e.type \in {"AGENT_FAILED", "SKILL_FAILED"}
    \/ e.type \in {"AGENT_COMPLETED", "SKILL_COMPLETED"} /\ e.success = "false"

ExecutionOps ==
    {"execute", "execute_task", "route_task", "skill_execute", "execute_skill"}

\* The caller of an agent execution or skill invocation observes a failure
FailureObserved ==
    /\ pc = "done"
    /\ op \in ExecutionOps
    /\ outcome \in {"returned_fail", "raised"}

\* C9 as stated: whenever an agent execution or a skill invocation ends in
\* failure, an event carrying that failure has been published before the
\* caller observes it.
C9_EveryFailureAnnounced ==
    FailureObserved => \E i \in 1..Len(published) : IsFailureEvent(published[i])

\* The lifecycle of BaseAgent.execute or BaseSkill.execute was entered
LifecycleStarted ==
    \E i \in 1..Len(published) :
        published[i].type \in {"AGENT_STARTED", "SKILL_STARTED"}

\* C9 amended: every failure that arises inside BaseAgent.execute or
\* BaseSkill.execute (the logic returned success=false, or pre-hook, logic
\* or post-hook raised) is announced by a failure event of that agent or
\* skill before the caller observes it.  A failure decided before the
\* lifecycle starts (unknown agent name, no capable agent, unknown skill,
\* validation failure in execute_skill) is returned or raised without any
\* event.
C9_LifecycleFailuresAnnounced ==
    FailureObserved =>
        IF LifecycleStarted
        THEN /\ IsFailureEvent(Last(published))
             /\ Last(published).source \in {cur_agent, skill}
        ELSE /\ published = <<>>
             /\ \/ op = "execute_task" /\ cur_agent = "none"
                \/ op = "route_task" /\ cur_agent = "none"
                \/ op = "execute_skill" /\ raised.type = "SkillNotFoundError"
                \/ op = "execute_skill" /\ validation.valid = "false"

\* C9 witness: a skill run through execute_skill returned success=false
\* from its logic and SKILL_COMPLETED carried the failure.
C9_Witness ==
    /\ FailureObserved
    /\ op = "execute_skill"
    /\ Len(published) = 2
    /\ Last(published).type = "SKILL_COMPLETED"
    /\ Last(published).success = "false"

----------------------------------------------------------------------------
(* Properties of the event bus *)

\* The subscriptions that match the event being published
Matching == handlers[bus_event.type] \o wildcard_handlers

\* The subscriptions a publish has invoked and those it will still invoke
Invocations ==
    [i \in 1..Len(delivered) |-> <<delivered[i].priority, delivered[i].handler>>]
        \o bus_pending

DistinctPriorities(subs) ==
    \A i, j \in 1..Len(subs) : i # j => subs[i][1] # subs[j][1]

\* C10: when the matching handlers (concrete type and wildcard) have pairwise
\* distinct priorities, publish invokes each of them exactly once, in
\* strictly descending priority order, whatever the subscription order, and
\* invokes no handler subscribed to another type only.
C10_DescendingPriority ==
    (bus_pc = "delivering" /\ DistinctPriorities(Matching)) =>
        /\ Len(Invocations) = Len(Matching)
        /\ Range(Invocations) = Range(Matching)
        /\ \A i, j \in 1..Len(Invocations) :
               i < j => Invocations[i][1] > Invocations[j][1]
        /\ \A i \in 1..Len(delivered) : delivered[i].event = bus_event

\* C10 witness: a publish has invoked two handlers, a wildcard handler
\* ahead of a concrete one that was subscribed with lower priority, while a
\* handler of the other event type was left out.
C10_Witness ==
    /\ bus_pc = "delivering"
    /\ bus_pending = <<>>
    /\ Len(delivered) = 2
    /\ DistinctPriorities(Matching)
    /\ <<delivered[1].priority, delivered[1].handler>> \in Range(wildcard_handlers)
    /\ <<delivered[2].priority, delivered[2].handler>>
           \in Range(handlers[bus_event.type])
    /\ \E t \in BusEventTypes :
           /\ t # bus_event.type
           /\ handlers[t] # <<>>
           /\ \A i \in 1..Len(delivered) :
                  delivered[i].handler # handlers[t][1][2]

----------------------------------------------------------------------------
(* C11: ties are broken by subscription order *)

\* The subsequence of Invocations that was subscribed with priority prio
InvokedAt(prio) ==
    LET at(x) == x[1] = prio IN SelectSeq(Invocations, at)

\* The live subscriptions matching the event being published that were
\* subscribed with priority prio, in the order subscribe() was called
SubscribedAt(prio) ==
    LET at(x) == x[2] = prio /\ x[1] \in {bus_event.type, "*"}
        subs  == SelectSeq(subscribed, at)
    IN  [i \in 1..Len(subs) |-> <<subs[i][2], subs[i][3]>>]

\* C11: among the matching handlers of one priority, concrete-type and
\* wildcard handlers alike, publish invokes them in the order in which they
\* were subscribed.
C11_TiesBySubscriptionOrder ==
    bus_pc = "delivering" =>
        \A prio \in Priorities : InvokedAt(prio) = SubscribedAt(prio)

----------------------------------------------------------------------------
(* C12: an error in a handler does not interrupt the delivery *)

SomeHandlerRaised == \E i \in 1..Len(delivered) : delivered[i].outcome = "raise"

\* C12: once a handler has raised during publish, the handlers invoked so
\* far followed by those still to be invoked are all the matching handlers
\* in the order publish computed for them, and the event is in the history;
\* every publish that has ended returned normally to its publisher, with its
\* event as the newest entry of the history.
C12_HandlerErrorCaught ==
    /\ (bus_pc = "delivering" /\ SomeHandlerRaised) =>
           /\ Invocations =
                  AllHandlers(handlers, wildcard_handlers, bus_event.type)
           /\ \A i \in 1..Len(delivered) : delivered[i].event = bus_event
           /\ bus_event \in Range(history)
    /\ (bus_pc = "idle" /\ bus_seq > 0) =>
           /\ bus_outcome = "returned"
           /\ history # <<>>
           /\ Last(history).id = bus_seq

\* C12 witness: the first of two matching handlers raised, the second was
\* still invoked and publish is about to return.
C12_Witness ==
    /\ bus_pc = "delivering"
    /\ bus_pending = <<>>
    /\ Len(delivered) = 2
    /\ delivered[1].outcome = "raise"
    /\ delivered[2].outcome = "ok"
    /\ bus_event \in Range(history)

----------------------------------------------------------------------------
(* C13: the history is the bounded tail of what was published *)

Min(a, b) == IF a <= b THEN a ELSE b

\* C13: the history never holds more than max_history events; after n
\* publish calls it holds the min(n, max_history) most recent events in
\* publish order; and while the handlers of an event are being invoked that
\* event is already the newest entry of the history.
C13_BoundedHistory ==
    /\ Len(history) <= MaxHistory
    /\ Len(history) = Min(bus_seq, MaxHistory)
    /\ \A i \in 1..Len(history) : history[i].id = bus_seq - Len(history) + i
    /\ bus_pc = "delivering" =>
           /\ Last(history) = bus_event
           /\ \A i \in 1..Len(delivered) : delivered[i].event = Last(history)

\* C13 witness: a third event was published into a full history of two, the
\* first event was evicted and a handler has been invoked for the third.
C13_Witness ==
    /\ bus_seq = MaxHistory + 1
    /\ Len(history) = MaxHistory
    /\ history[1].id = 2
    /\ bus_pc = "delivering"
    /\ delivered # <<>>

----------------------------------------------------------------------------
(* Specification of the event history: publish without subscribers, and
   get_history *)

NextHistory ==
    \/ PublishBegin
    \/ PublishReturn
    \/ GetHistory

SpecHistory == Init /\ [][NextHistory]_vars

----------------------------------------------------------------------------
(* C14: get_history returns the most recent events *)

\* The last n entries of seq, all of seq when it has fewer
LastN(seq, n) ==
    IF n >= Len(seq) THEN seq ELSE SubSeq(seq, Len(seq) - n + 1, Len(seq))

\* The history restricted to one event type, "*" for no restriction
OfType(hist, type) ==
    LET ofType(e) == type = "*" \/ e.type = type IN SelectSeq(hist, ofType)

\* C14: whenever get_history(event_type, limit) returns, for any limit >= 0,
\* it returns the most recent limit events of the history (of event_type
\* when one is given) in publish order, and never more than limit events.
C14_MostRecentLimit ==
    [][query' # query =>
          /\ query'.events = LastN(OfType(history, query'.type), query'.limit)
          /\ Len(query'.events) <= query'.limit]_vars

----------------------------------------------------------------------------
(* Specification of the registry *)

NextRegistry ==
    \/ RegistryAdd
    \/ RegistryRemove
    \/ RegistryGet
    \/ GetInstance
    \/ Create
    \/ ListByCategory
    \/ RegistryClear

SpecRegistry == Init /\ [][NextRegistry]_vars

----------------------------------------------------------------------------
(* C15: a duplicate registration fails and changes nothing *)

\* C15: a call add(name, ..., replace=False) for a name that is registered
\* raises DuplicateRegistrationError and leaves the class mapping, the
\* metadata, the category sets and the cached instances as they were.
C15_DuplicateRejected ==
    [][(/\ reg_result'.op = "add"
        /\ reg_result'.replace = "false"
        /\ Has(reg_result'.name)) =>
           /\ reg_result'.error = "DuplicateRegistrationError"
           /\ UNCHANGED <<items, metadata, categories, instances>>]_vars

\* C15 witness: a duplicate registration under another class and category
\* was rejected while an instance of the registered class is cached.
C15_Witness ==
    /\ reg_result.op = "add"
    /\ reg_result.error = "DuplicateRegistrationError"
    /\ Has(reg_result.name)
    /\ items[reg_result.name] # reg_result.cls
    /\ metadata[reg_result.name].category # reg_result.category
    /\ instances[reg_result.name] # NoInstance

----------------------------------------------------------------------------
(* C16: a replacement is visible to every lookup *)

\* C16: add(name, cls, replace=True) on a registered name succeeds, and every
\* lookup of a registered name answers from the current mapping: get
\* returns the registered class, create and get_instance return an
\* instance of the registered class.
C16_ReplacementVisible ==
    /\ (reg_result.op = "add" /\ reg_result.replace = "true") =>
           /\ reg_result.error = "none"
           /\ items[reg_result.name] = reg_result.cls
    /\ reg_result.op = "get" => reg_result.cls = items[reg_result.name]
    /\ (reg_result.op \in {"create", "get_instance"} /\ Has(reg_result.name)) =>
           reg_result.instance.cls = items[reg_result.name]

----------------------------------------------------------------------------
(* C17: one cached instance per name, fresh instances from create *)

\* The step is a call of the registry method `call`
IsCall(call) == reg_result'.op = call

\* C17: for a registered name get_instance constructs (from the registered
\* class) only when no instance is cached, caches what it constructed, and
\* otherwise returns the cached instance whatever arguments it is given;
\* a cached instance changes only when its name is removed or the registry
\* is cleared; create constructs a new instance on every call and leaves the
\* cache alone; for an unregistered name both return None and construct
\* nothing.
C17_InstanceCaching ==
    [][/\ \A n \in RegNames :
             (instances[n] # NoInstance /\ instances'[n] # instances[n]) =>
                 \/ IsCall("remove") /\ reg_result'.name = n
                 \/ IsCall("clear")
       /\ (IsCall("get_instance") /\ Has(reg_result'.name)) =>
             IF instances[reg_result'.name] # NoInstance
             THEN /\ reg_result'.instance = instances[reg_result'.name]
                  /\ UNCHANGED <<instances, constructed>>
             ELSE /\ constructed' = constructed + 1
                  /\ reg_result'.instance =
                         Instance(items[reg_result'.name], reg_result'.args,
                                  constructed')
                  /\ instances'[reg_result'.name] = reg_result'.instance
       /\ (IsCall("create") /\ Has(reg_result'.name)) =>
             /\ constructed' = constructed + 1
             /\ reg_result'.instance =
                    Instance(items[reg_result'.name], reg_result'.args,
                             constructed')
             /\ \A n \in RegNames : instances[n] # reg_result'.instance
             /\ UNCHANGED instances
       /\ ((IsCall("create") \/ IsCall("get_instance"))
              /\ ~Has(reg_result'.name)) =>
             /\ reg_result'.instance = NoInstance
             /\ UNCHANGED <<instances, constructed>>]_vars

\* C17 witness: get_instance was called with other arguments than the cached
\* instance was constructed with and returned the cached instance, the first
\* one constructed, after a second instance had been constructed.
C17_Witness ==
    /\ reg_result.op = "get_instance"
    /\ Has(reg_result.name)
    /\ reg_result.instance = instances[reg_result.name]
    /\ reg_result.instance.args # reg_result.args
    /\ reg_result.instance.id = 1
    /\ constructed = 2

----------------------------------------------------------------------------
(* C18: list_by_category lists the registered names of the category *)

\* The registered names whose category tag is c
Tagged(c) == {n \in RegNames : Has(n) /\ metadata[n].category = c}

\* C18: in every reachable registry state, list_by_category(c) returns
\* exactly the registered names whose category tag is c.
C18_CategoryListing ==
    /\ \A c \in Categories : categories[c] = Tagged(c)
    /\ reg_result.op = "list_by_category" =>
           reg_result.names = Tagged(reg_result.category)

----------------------------------------------------------------------------
(* Specification of the chunker *)

NextChunk ==
    \/ ChunkCall
    \/ FixedSizeStep
    \/ SlidingWindowStep
    \/ ChunkReturn
    \/ ChunkSemantic
    \/ ChunkParagraph

SpecChunk == Init /\ [][NextChunk]_vars

----------------------------------------------------------------------------
(* C19: chunk indices, metadata and non-empty contents *)

HasSolid(s) == \E i \in 1..Len(s) : ~IsSpace(s[i])

\* C19 as stated: the chunks emitted so far carry chunk_index 0, 1, ..., n-1
\* in emission order, every entry of the caller-supplied metadata is in the
\* metadata of every chunk, and no chunk content is empty or whitespace only.
C19_ChunkIndexAndMetadata ==
    \A i \in 1..Len(chunks) :
        /\ chunks[i].metadata["chunk_index"] = i - 1
        /\ \A k \in DOMAIN chunk_meta :
               /\ k \in DOMAIN chunks[i].metadata
               /\ chunks[i].metadata[k] = chunk_meta[k]
        /\ HasSolid(chunks[i].content)

\* C19 amended: as above, except that a caller-supplied entry under the key
\* chunk_index is replaced by the chunk's own index.
C19_ChunkIndexWins ==
    \A i \in 1..Len(chunks) :
        /\ chunks[i].metadata["chunk_index"] = i - 1
        /\ \A k \in DOMAIN chunk_meta \ {"chunk_index"} :
               /\ k \in DOMAIN chunks[i].metadata
               /\ chunks[i].metadata[k] = chunk_meta[k]
        /\ HasSolid(chunks[i].content)

\* C19 witness: a sliding-window call with caller metadata has returned two
\* chunks, and the window between them was whitespace only and skipped.
C19_Witness ==
    /\ chunk_pc = "done"
    /\ strategy = "sliding_window"
    /\ "page" \in DOMAIN chunk_meta
    /\ Len(chunks) = 2
    /\ chunks[2].start_index - chunks[1].start_index =
           2 * (chunker.chunk_size - chunker.chunk_overlap)
    /\ chunks[2].metadata["chunk_index"] = 1

----------------------------------------------------------------------------
(* C20: the chunks reproduce the text *)

\* The characters of s that are not whitespace, in order
Solid(s) == LET solid(c) == ~IsSpace(c) IN SelectSeq(s, solid)

\* The contents of the chunks from the i-th on, concatenated
RECURSIVE Contents(_, _)
Contents(list, i) ==
    IF i > Len(list) THEN <<>> ELSE list[i].content \o Contents(list, i + 1)

\* C20: when chunk() has returned, the contents of the chunks concatenated
\* in order are, whitespace aside, the text: every non-whitespace character
\* of the text once, in input order.
C20_ReproducesTextOnce ==
    chunk_pc = "done" => Solid(Contents(chunks, 1)) = Solid(text)

----------------------------------------------------------------------------
(* C21: chunk contents and the input text *)

\* a occurs in b as a contiguous run
IsSubstring(a, b) ==
    \E i \in 0..(Len(b) - Len(a)) : SubSeq(b, i + 1, i + Len(a)) = a

\* C21 as stated: the content of every emitted chunk, whatever the
\* strategy, is a contiguous substring of the input text.
C21_ContentIsSubstring ==
    \A i \in 1..Len(chunks) : IsSubstring(chunks[i].content, text)

\* C21 amended: the content of a fixed-size or sliding-window chunk is a
\* contiguous substring of the text; the content of a semantic or paragraph
\* chunk is a contiguous run of the text with its separators normalised,
\* that is, its non-whitespace characters are a contiguous run of the
\* non-whitespace characters of the text.
C21_SubstringUpToSeparators ==
    \A i \in 1..Len(chunks) :
        /\ strategy \in {"fixed_size", "sliding_window"} =>
               IsSubstring(chunks[i].content, text)
        /\ IsSubstring(Solid(chunks[i].content), Solid(text))

\* C21 witness: a semantic call has returned a chunk of two sentences that
\* a newline separates in the text and a space separates in the chunk.
C21_Witness ==
    /\ chunk_pc = "done"
    /\ strategy = "semantic"
    /\ Len(chunks) = 1
    /\ Newline \in Range(text)
    /\ chunks[1].content = <<Letter, Stop, Space, Letter, Stop>>

----------------------------------------------------------------------------
(* C22: chunk offsets are monotonic *)

----------------------------------------------------------------------------
(* C23: the sliding window advances by a constant step *)

Step == chunker.chunk_size - chunker.chunk_overlap

\* The window of chunk_size characters that starts at offset s
Window(s) == Slice(text, s, s + chunker.chunk_size)

\* C23 as stated: any two adjacent chunks the sliding window emitted have
\* start_index values exactly chunk_size - chunk_overlap apart and their
\* windows share chunk_overlap characters of the text.
C23_AdjacentChunksOneStepApart ==
    strategy = "sliding_window" =>
        \A i \in 1..(Len(chunks) - 1) :
            /\ chunks[i + 1].start_index - chunks[i].start_index = Step
            /\ chunks[i].end_index - chunks[i + 1].start_index =
                   chunker.chunk_overlap

\* C23 amended: every window starts at a multiple of chunk_size -
\* chunk_overlap and ends chunk_size later or at the end of the text; two
\* adjacent emitted chunks are one step apart, sharing chunk_overlap
\* characters, unless the windows between them were whitespace only and
\* skipped, and then they are that many more steps apart.
C23_ConstantStep ==
    strategy = "sliding_window" =>
        /\ \A i \in 1..Len(chunks) :
               /\ chunks[i].start_index % Step = 0
               /\ chunks[i].end_index =
                      Min(chunks[i].start_index + chunker.chunk_size, Len(text))
               /\ chunks[i].content = Strip(Window(chunks[i].start_index))
        /\ \A i \in 1..(Len(chunks) - 1) :
               LET gap == chunks[i + 1].start_index - chunks[i].start_index IN
               /\ gap >= Step
               /\ \A s \in (chunks[i].start_index + 1)..
                            (chunks[i + 1].start_index - 1) :
                      s % Step = 0 => ~HasSolid(Window(s))
               /\ gap = Step =>
                      chunks[i].end_index - chunks[i + 1].start_index =
                          chunker.chunk_overlap

\* C23 witness: the sliding window has returned two chunks two steps apart,
\* the window between them being whitespace only, and the last window is
\* shorter than chunk_size.
C23_Witness ==
    /\ chunk_pc = "done"
    /\ strategy = "sliding_window"
    /\ Len(chunks) = 2
    /\ chunks[2].start_index = chunks[1].start_index + 2 * Step
    /\ ~HasSolid(Window(chunks[1].start_index + Step))
    /\ chunks[2].end_index - chunks[2].start_index < chunker.chunk_size

----------------------------------------------------------------------------
(* Specification of the retriever and of RAGService.query *)

NextRetriever ==
    \/ NewRetriever
    \/ Retrieve
    \/ RetrieveCombined
    \/ RagQuery

SpecRetriever == Init /\ [][NextRetriever]_vars

(* Specification of format_context *)

NextFormat == FormatContext

SpecFormat == Init /\ [][NextFormat]_vars

----------------------------------------------------------------------------
(* C24: the score as a function of the distance *)

\* The store queries of the last call, in order
StoreCalls == SelectSeq(rag_calls, LAMBDA c : c.call \in {"query", "query_by_text"})

\* The RetrievalResults the retrievals of the last call returned, in order
Retrieved ==
    IF combined # NoCombined THEN <<combined.style, combined.knowledge>>
    ELSE IF retrieval # NoRetrieval THEN <<retrieval>>
    ELSE <<>>

\* The (distance, score) pairs of the last call
ScoredPairs ==
    UNION {{<<StoreCalls[i].returned.distances[j], Retrieved[i].scores[j]>> :
               j \in 1..SetMin({Len(Retrieved[i].scores), Len(StoreCalls[i].returned.distances)})} :
           i \in 1..Len(Retrieved)}

\* C24 as stated: every score computed from a distance d >= 0 lies in (0, 1],
\* equals 1 only for d = 0, and is strictly decreasing in the distance: of
\* two distances the smaller one has the strictly greater score
C24_ScoreStrictlyDecreasing ==
    /\ \A i \in 1..Len(Retrieved) :
          Len(Retrieved[i].scores) = Len(StoreCalls[i].returned.distances)
    /\ \A p \in ScoredPairs :
          /\ FloatLess(Zero, p[2])
          /\ ~FloatLess(One, p[2])
          /\ p[2] = One => p[1] = Zero
    /\ \A p, q \in ScoredPairs : FloatLess(p[1], q[1]) => FloatLess(q[2], p[2])

\* C24 amended: every score computed from a distance d >= 0 lies in (0, 1],
\* equals 1 for d = 0, and is non-increasing in the distance: of two
\* distances the smaller one never has the smaller score
C24_ScoreNonIncreasing ==
    /\ \A i \in 1..Len(Retrieved) :
          Len(Retrieved[i].scores) = Len(StoreCalls[i].returned.distances)
    /\ \A p \in ScoredPairs :
          /\ FloatLess(Zero, p[2])
          /\ ~FloatLess(One, p[2])
          /\ p[1] = Zero => p[2] = One
    /\ \A p, q \in ScoredPairs : FloatLess(p[1], q[1]) => ~FloatLess(p[2], q[2])

\* A retrieval returned three distances d0 = 0 < d1 < d2 whose scores are
\* 1, 1 and less than 1: 1.0 + d1 rounded to 1.0
C24_Witness ==
    \E p, q, r \in ScoredPairs :
        /\ p[1] = Zero /\ FloatLess(Zero, q[1]) /\ FloatLess(q[1], r[1])
        /\ p[2] = One /\ q[2] = One /\ FloatLess(r[2], One)

----------------------------------------------------------------------------
(* C25: the merge of RAGService.query *)

\* RAGService.query was called without a collection and returned
MergedReturned == retrieval.collection = "combined"

\* C25: when query is called without a collection, the documents returned
\* are the first n_results of the knowledge documents followed by the style
\* documents, each half as the store answered it; there are as many scores as
\* documents and scores[i] is the score the retrieval gave documents[i]; a
\* style document is returned only if knowledge returned fewer than n_results
C25_KnowledgeFirstMerge ==
    MergedReturned =>
        LET n_results == rag_calls[1].n
            style == StoreCalls[1].returned.documents
            knowledge == StoreCalls[2].returned.documents
            all == knowledge \o style
            scored == combined.knowledge.scores \o combined.style.scores
            k == SetMin({n_results, Len(all)})
        IN  /\ combined.knowledge.documents = knowledge
            /\ combined.style.documents = style
            /\ Len(scored) = Len(all)
            /\ retrieval.documents = SubSeq(all, 1, k)
            /\ Len(retrieval.scores) = Len(retrieval.documents)
            /\ \A i \in 1..k : retrieval.scores[i] = scored[i]
            /\ (\E i \in 1..k : retrieval.documents[i] \in Stored(STYLE_COLLECTION))
                  => Len(knowledge) < n_results

\* query, asked for two documents, returned the one knowledge document the
\* store had followed by a style document whose score is greater
C25_Witness ==
    /\ MergedReturned
    /\ rag_calls[1].n = 2
    /\ Len(retrieval.documents) = 2
    /\ retrieval.documents[1] \in Stored(KNOWLEDGE_COLLECTION)
    /\ retrieval.documents[2] \in Stored(STYLE_COLLECTION)
    /\ FloatLess(retrieval.scores[1], retrieval.scores[2])
    /\ Len(combined.knowledge.documents) = 1

----------------------------------------------------------------------------
(* C26: the length of the formatted context *)

\* format_context was called and returned
Formatted == format_call # NoFormatCall

\* The blocks of the first k documents of the call, numbered from 1
Blocks(k) == [i \in 1..k |-> Section(i - 1, format_call.documents[i])]

\* C26: the string format_context returns is at most max_length characters
\* long, the newlines that join the blocks included, and it is made of whole
\* blocks only
C26_WithinMaxLength ==
    Formatted =>
        /\ Len(format_call.returned) <= format_call.max_length
        /\ \E k \in 0..Len(format_call.documents) :
              format_call.returned = Join(<<Newline>>, Blocks(k))

(* C27: which blocks are rendered *)

\* The summed length of the blocks of the first k documents
RECURSIVE BlockLength(_)
BlockLength(k) == IF k = 0 THEN 0 ELSE BlockLength(k - 1) + Len(Blocks(k)[k])

\* C27: the rendered blocks are the complete blocks of the first k documents
\* in result order, numbered Source 1..k, where document k + 1 is the first
\* whose block brings the summed length of the blocks above max_length; it
\* and every later document are dropped
C27_PrefixOfBlocks ==
    Formatted =>
        LET k == Len(format_call.parts)
        IN  /\ k <= Len(format_call.documents)
            /\ format_call.parts = Blocks(k)
            /\ format_call.returned = Join(<<Newline>>, Blocks(k))
            /\ BlockLength(k) <= format_call.max_length
            /\ k < Len(format_call.documents) => BlockLength(k + 1) > format_call.max_length

\* The second of three documents did not fit and was dropped, and so was the
\* third, whose block would have fitted after the first
C27_Witness ==
    /\ Formatted
    /\ Len(format_call.documents) = 3
    /\ Len(format_call.parts) = 1
    /\ BlockLength(1) + Len(Section(2, format_call.documents[3])) <= format_call.max_length

----------------------------------------------------------------------------
(* C28: retrieval with and without an embedding service *)

\* The positions of rag_calls that hold a call named name
CallsNamed(name) == {i \in 1..Len(rag_calls) : rag_calls[i].call = name}

\* C28: without an embedding service every retrieval goes to the store's text
\* query, the embedding service is never called and no retrieval fails, so
\* retrieve_combined returns a style and a knowledge RetrievalResult; with an
\* embedding service every retrieval embeds the query first and then uses
\* the vector query, never the text query
C28_TextQueryFallback ==
    /\ embedding_service = None =>
          /\ CallsNamed("embed_text") = {} /\ CallsNamed("query") = {}
          /\ Len(Retrieved) = Len(StoreCalls)
          /\ Len(StoreCalls) = 2 =>
                /\ combined.style = Retrieved[1] /\ combined.knowledge = Retrieved[2]
                /\ combined.style.collection = STYLE_COLLECTION
                /\ combined.knowledge.collection = KNOWLEDGE_COLLECTION
                /\ combined.style.documents = StoreCalls[1].returned.documents
                /\ combined.knowledge.documents = StoreCalls[2].returned.documents
    /\ embedding_service \notin {None, "unset"} =>
          /\ CallsNamed("query_by_text") = {}
          /\ \A i \in CallsNamed("query") :
                i > 1 /\ rag_calls[i - 1] = Call("embed_text", "ok", 0, NoAnswer)
          /\ \A i \in CallsNamed("embed_text") :
                rag_calls[i].arg = "ok" => (i + 1) \in CallsNamed("query")
          /\ Len(Retrieved) > 0 => Len(Retrieved) = Cardinality(CallsNamed("embed_text"))

\* retrieve_combined was called on a retriever without an embedding service
\* and returned documents of both collections
C28_Witness ==
    /\ embedding_service = None
    /\ Len(rag_calls) = 2
    /\ rag_calls[1].call = "query_by_text" /\ rag_calls[2].call = "query_by_text"
    /\ combined.style.documents # <<>>
    /\ combined.knowledge.documents # <<>>

----------------------------------------------------------------------------
(* C29: the ContentResult of a run in which every stage succeeded *)

\* All seven stage agents returned success=true
AllStagesSucceeded ==
    /\ op = "create_content"
    /\ \A a \in Range(StageAgents) :
          \E i \in 1..Len(published) :
              /\ published[i].type = "PIPELINE_STAGE_COMPLETED"
              /\ published[i].stage = a
              /\ published[i].success = "true"

\* The positions of s at which a word begins
WordStarts(s) == {i \in 1..Len(s) : ~IsSpace(s[i]) /\ (i = 1 \/ IsSpace(s[i - 1]))}

\* C29: when all seven stage agents returned success=true, create_content
\* returns a ContentResult whose word_count is the number of words of the
\* content it carries, which is the content the SEO stage reported, and
\* whose approved is the flag the quality stage reported, false if it
\* reported none
C29_WordCountAndApproval ==
    (AllStagesSucceeded /\ pc = "done") =>
        /\ outcome = "returned_ok"
        /\ content_result # NoContentResult
        /\ content_result.word_count = Cardinality(WordStarts(content_result.content))
        /\ content_result.content =
              (IF stage_outputs.seo.content = Missing THEN <<>> ELSE stage_outputs.seo.content)
        /\ content_result.approved =
              (IF stage_outputs.quality.approved = AbsentKey THEN "false"
               ELSE stage_outputs.quality.approved)

\* A run returned a two-word content that has more whitespace than words
\* separate, approved by the quality stage
C29_Witness ==
    /\ AllStagesSucceeded
    /\ pc = "done"
    /\ content_result.word_count = 2
    /\ Len(content_result.content) = 7
    /\ content_result.approved = "true"

----------------------------------------------------------------------------
(* C30: stage events around every dispatch *)

\* Events that end the turn of a stage: the next stage starts, or the
\* pipeline completes or fails
EndsStage(e) == e.type \in {"PIPELINE_STAGE_STARTED", "PIPELINE_COMPLETED", "PIPELINE_FAILED"}

IsAgentEvent(e) == e.type \in {"AGENT_STARTED", "AGENT_COMPLETED", "AGENT_FAILED"}

\* C30: in create_content every agent event follows the
\* PIPELINE_STAGE_STARTED of its stage, and every PIPELINE_STAGE_STARTED is
\* followed by the PIPELINE_STAGE_COMPLETED of the same stage, after the
\* events of the agent call and before the next stage starts or the pipeline
\* completes or fails, however the agent call ended
C30_StageEventsAroundDispatch ==
    op = "create_content" =>
        /\ \A j \in 1..Len(published) :
              IsAgentEvent(published[j]) =>
                  \E i \in 1..(j - 1) :
                      /\ published[i].type = "PIPELINE_STAGE_STARTED"
                      /\ published[i].stage = published[j].source
                      /\ \A m \in (i + 1)..(j - 1) : IsAgentEvent(published[m])
        /\ \A i \in 1..Len(published), j \in 1..Len(published) :
              (/\ published[i].type = "PIPELINE_STAGE_STARTED"
               /\ i < j
               /\ EndsStage(published[j])
               /\ \A m \in (i + 1)..(j - 1) : ~EndsStage(published[m]))
              => /\ published[j - 1].type = "PIPELINE_STAGE_COMPLETED"
                 /\ published[j - 1].stage = published[i].stage
                 /\ \A m \in (i + 1)..(j - 2) : IsAgentEvent(published[m])

----------------------------------------------------------------------------
(* The agent framework under a scheduler that keeps running the call in *)
(* progress: the event loop resumes a coroutine that can take a step    *)

SpecPipelineLive == Spec /\ WF_vars(Next)

(* C37: one terminal pipeline event per run *)

\* The positions of the terminal pipeline events of the run
Terminals == {i \in 1..Len(published) : published[i].type \in {"PIPELINE_COMPLETED", "PIPELINE_FAILED"}}

HasEvent(type) == \E i \in 1..Len(published) : published[i].type = type

\* In a create_content run at most one terminal event is published, it is
\* the last event of the run, and when the call ends there is one:
\* PIPELINE_COMPLETED exactly if a ContentResult is returned, which needs
\* seven successful stages, PIPELINE_FAILED exactly if the call raises
OneTerminalEvent ==
    op = "create_content" =>
        /\ published[1].type = "PIPELINE_STARTED"
        /\ Cardinality(Terminals) <= 1
        /\ \A i \in Terminals : i = Len(published) /\ pc = "done"
        /\ pc = "done" =>
              /\ Cardinality(Terminals) = 1
              /\ HasEvent("PIPELINE_COMPLETED") <=>
                    (outcome = "returned_ok" /\ content_result # NoContentResult)
              /\ HasEvent("PIPELINE_FAILED") <=> (outcome = "raised" /\ raised # NoError)
              /\ content_result # NoContentResult => outcome = "returned_ok"
        /\ HasEvent("PIPELINE_COMPLETED") => AllStagesSucceeded

\* C37: every create_content run that has published PIPELINE_STARTED goes on
\* to publish exactly one terminal pipeline event, PIPELINE_COMPLETED if and
\* only if it returns a ContentResult and PIPELINE_FAILED if and only if it
\* raises, and publishes nothing of the run after it
C37_ExactlyOneTerminalEvent ==
    /\ []OneTerminalEvent
    /\ (op = "create_content") ~> (op = "create_content" /\ pc = "done" /\ Cardinality(Terminals) = 1)

\* A run failed in its third stage and PIPELINE_FAILED is its last event
C37_Witness ==
    /\ op = "create_content"
    /\ pc = "done"
    /\ stage = 3
    /\ Last(published).type = "PIPELINE_FAILED"
    /\ ~HasEvent("PIPELINE_COMPLETED")

----------------------------------------------------------------------------
(* C39: a quality stage that does not approve *)

\* The stage of agent a has completed with the given success flag
StageCompleted(a, success) ==
    \E i \in 1..Len(published) :
        /\ published[i].type = "PIPELINE_STAGE_COMPLETED"
        /\ published[i].stage = a
        /\ published[i].success = success

\* The quality stage succeeded and reported approved=false
Unapproved ==
    /\ op = "create_content"
    /\ StageCompleted("quality_reviewer", "true")
    /\ stage_outputs.quality.approved = "false"

\* C39: after a quality stage that succeeded with approved=false the run goes
\* on to the image_prompt and visual_suggestion stages; if they succeed,
\* PIPELINE_COMPLETED with approved=false is published, not PIPELINE_FAILED,
\* and a ContentResult with approved=false is returned; a run is stopped only
\* by a stage whose result has success=false or whose agent raised
C39_UnapprovedRunCompletes ==
    /\ Unapproved =>
          /\ stage > 5
          /\ (pc = "done" /\ StageCompleted("image_prompt", "true")
                          /\ StageCompleted("visual_suggestion", "true")) =>
                /\ Last(published) = PipelineCompleted("false")
                /\ ~HasEvent("PIPELINE_FAILED")
                /\ outcome = "returned_ok"
                /\ content_result.approved = "false"
                /\ SubSeq(invoked, 6, 7) = <<"image_prompt", "visual_suggestion">>
    /\ (op = "create_content" /\ (pc = "pipeline_except" \/ outcome = "raised")) =>
          \E i \in 1..Len(published) :
              \/ published[i].type = "AGENT_FAILED"
              \/ published[i].type = "PIPELINE_STAGE_COMPLETED" /\ published[i].success = "false"

\* A run whose quality stage reported approved=false has returned
C39_Witness ==
    /\ Unapproved
    /\ pc = "done"
    /\ outcome = "returned_ok"
    /\ Len(invoked) = 7
    /\ content_result.approved = "false"

----------------------------------------------------------------------------
(* C40: lookups that find no agent *)

\* The orchestrator built the TaskResult itself: it found no agent
LookupFailed == op \in {"execute_task", "route_task"} /\ task_error # NoTaskError

\* The agents of ags that can handle a task of type ty
AbleAgents(ags, ty) == {i \in 1..Len(ags) : CanHandle(ags[i], ty)}

----------------------------------------------------------------------------
(* C31: what each stage's Task carries *)

\* The key under which an agent is said to receive the output of the stage
\* before it, and the local of create_content that holds that output
ClaimedKey ==
    [writer |-> "research", editor |-> "draft", seo |-> "edited",
     quality_reviewer |-> "seo", image_prompt |-> "quality",
     visual_suggestion |-> "image_prompts"]

ClaimedOutput(a) ==
    CASE a = "writer"            -> stage_outputs.research
      [] a = "editor"            -> stage_outputs.write
      [] a = "seo"               -> stage_outputs.edit
      [] a = "quality_reviewer"  -> stage_outputs.seo
      [] a = "image_prompt"      -> stage_outputs.quality
      [] a = "visual_suggestion" -> stage_outputs.image

\* The Task of the current stage has been built and handed to its agent
StageTaskBuilt ==
    /\ op = "create_content"
    /\ pc \in {"agent_start", "agent_logic", "agent_complete", "agent_except",
               "stage_end"}

----------------------------------------------------------------------------
(* C38: success flag and status of a SkillResult *)

\* C38: the success flag and the status of every SkillResult that
\* execute_skill or BaseSkill.execute hands back agree: a result with
\* success=false has status FAILED, never COMPLETED, and a result with
\* success=true has status COMPLETED.
C38_SuccessAgreesWithStatus ==
    (pc = "done" /\ skill_result # NoSkillResult) =>
        /\ skill_result.success = "false" => skill_result.status = "FAILED"
        /\ skill_result.success = "true" => skill_result.status = "COMPLETED"

----------------------------------------------------------------------------
(* C33: execute_skill validates before it dispatches *)

\* C33: execute_skill on a skill the agent holds, with a merged context that
\* violates the declared parameters, returns a SkillResult with success=false
\* whose error lists every violation, in declaration order; it does not
\* raise, enters neither BaseSkill.execute nor the logic body and publishes
\* no event. With a valid context it returns what BaseSkill.execute returns:
\* the result the skill events of the call report.
C33_ValidationBeforeDispatch ==
    (op = "execute_skill" /\ raised.type # "SkillNotFoundError") =>
        IF Rejected(skill, ctx)
        THEN /\ logic_runs = 0
             /\ raised = NoError
             /\ published = <<>>
             /\ pc \in {"skill_invalid", "done"}
             /\ pc = "done" =>
                   /\ outcome = "returned_fail"
                   /\ skill_result.success = "false"
                   /\ skill_result.skill_name = skill
                   /\ Names(skill_result.errors) =
                         Names(SelectSeq(Parameters(skill),
                                  LAMBDA param : ViolatedNoneAbsent(param, ctx)))
        ELSE /\ pc # "skill_invalid"
             /\ pc = "done" =>
                   /\ Types(published) \in {<<"SKILL_STARTED", "SKILL_COMPLETED">>,
                                            <<"SKILL_STARTED", "SKILL_FAILED">>}
                   /\ \A i \in 1..Len(published) : published[i].source = skill
                   /\ outcome \in {"returned_ok", "returned_fail"}
                   /\ skill_result.skill_name = skill
                   /\ skill_result.success = BoolName(outcome = "returned_ok")
                   /\ published[2].type = "SKILL_COMPLETED" =>
                         /\ published[2].success = skill_result.success
                         /\ published[2].status = skill_result.status
                         /\ logic_runs = 1
                   /\ published[2].type = "SKILL_FAILED" =>
                         /\ skill_result.success = "false"
                         /\ skill_result.status = "FAILED"

\* C33 witness: execute_skill returned a result that lists two violations.
C33_Witness ==
    /\ op = "execute_skill"
    /\ pc = "done"
    /\ skill = "web_search"
    /\ outcome = "returned_fail"
    /\ published = <<>>
    /\ Len(skill_result.errors) = 2

----------------------------------------------------------------------------
(* C34: progress of the fixed-size loop *)

\* C34: in fixed-size chunking with chunk_size >= 1 and 0 <= chunk_overlap <
\* chunk_size the window start grows in every iteration of the loop, also
\* when the window's end was moved back to a space, so the loop ends, and
\* the number of chunks is at most the length of the text.
C34_FixedSizeAdvances ==
    /\ [][(chunk_pc = "fixed_size" /\ chunk_pc' = "fixed_size") =>
              start' > start]_<<start, chunks>>
    /\ [](chunk_pc = "fixed_size" => Len(chunks) <= Len(text))

----------------------------------------------------------------------------
(* C35: semantic and paragraph chunks are runs of whole units *)

\* The units of the call: the sentences as split, or the stripped paragraphs
\* that are not blank
Units ==
    IF strategy = "semantic" THEN SentencePieces(text, 1, <<>>, <<>>)
    ELSE LET stripped == [i \in 1..Len(ParagraphPieces(text, 1, <<>>, <<>>)) |->
                             Strip(ParagraphPieces(text, 1, <<>>, <<>>)[i])]
         IN  SelectSeq(stripped, LAMBDA p : p # <<>>)

\* The separator the strategy puts after a unit
Separator == IF strategy = "semantic" THEN <<Space>> ELSE <<Newline, Newline>>

\* The units i..j, each followed by the separator
RECURSIVE JoinRun(_, _, _, _)
JoinRun(units, i, j, sep) ==
    IF i > j THEN <<>> ELSE units[i] \o sep \o JoinRun(units, i + 1, j, sep)

\* The units from the i-th on fall into consecutive runs, one for each chunk
\* from the k-th on: the chunk's content is its run, and it is longer than
\* size only when the run is a single unit; units left over are blank
RECURSIVE Grouped(_, _, _, _, _, _)
Grouped(units, i, list, k, sep, size) ==
    IF k > Len(list)
    THEN \A j \in i..Len(units) : Strip(units[j]) = <<>>
    ELSE \E j \in i..Len(units) :
            /\ list[k].content = Strip(JoinRun(units, i, j, sep))
            /\ Len(list[k].content) <= size \/ j = i
            /\ Grouped(units, j + 1, list, k + 1, sep, size)

\* C35: the semantic and the paragraph strategy put whole units into chunks
\* in input order, every unit into exactly one chunk and none split; a chunk
\* is closed when the next unit would take it over chunk_size, so every
\* chunk is at most chunk_size long unless it is a single longer unit.
C35_WholeUnitsWithinSize ==
    (chunk_pc = "done" /\ strategy \in {"semantic", "paragraph"}) =>
        Grouped(Units, 1, chunks, 1, Separator, chunker.chunk_size)

\* C35 witness: a semantic call closed a chunk of two sentences before a
\* third and returned both chunks.
C35_Witness ==
    /\ chunk_pc = "done"
    /\ strategy = "semantic"
    /\ chunker.chunk_size = 6
    /\ Len(Units) = 3
    /\ Len(chunks) = 2
    /\ chunks[1].content = <<Letter, Stop, Space, Letter, Stop>>

----------------------------------------------------------------------------
(* C36: the web search of the research agent *)

\* C36: the research agent runs the web_search skill only when its
\* rag_query failed or retrieved fewer than 3 documents.
C36_WebSearchOnlyWhenRagInsufficient ==
    "web_search" \in Range(research.skills) =>
        \/ research.rag_result.success = "false"
        \/ Len(research.retrieved) < 3

----------------------------------------------------------------------------
(* C32: one handler invocation at a time *)

\* The coroutines whose publish is inside a handler invocation: the handler
\* was called and has not ended, whether it runs or is suspended
InHandler ==
    {p \in Publishers : event_loop.coroutines[p].pc \in {"in_handler", "suspended"}}

\* C32: at any time at most one handler invocation is in progress on the
\* bus, also when two coroutines publish concurrently and a handler
\* suspends while publish awaits it.
C32_OneHandlerAtATime == Cardinality(InHandler) <= 1

=============================================================================
